---- MODULE Spec2Model ----
(***************************************************************************)
(* Turn orchestration core of the AI dungeon master: intent routing, the   *)
(* combat-readiness check, combat-plan regeneration and the merge of the   *)
(* plan into the turn's structured payload.                                *)
(*                                                                         *)
(* Strings are sequences of one-character strings, so that str.lower(),    *)
(* str.strip() and truthiness are computed and not assumed.                *)
(***************************************************************************)
EXTENDS Integers, Sequences, FiniteSets, TLC

\* ------------------------------------------------------------------------
\* Bounds of the model
\* ------------------------------------------------------------------------
MaxParticipants == 2
MaxPlanNpcs == 2
MaxProvenance == 4
MaxAttempts == 5

\* ------------------------------------------------------------------------
\* Python str helpers
\* ------------------------------------------------------------------------

lower(s) ==
    LET LowerChar(c) ==
            CASE c = "G" -> "g"
              [] c = "O" -> "o"
              [] c = "C" -> "c"
              [] c = "D" -> "d"
              [] OTHER -> c
    IN  [i \in 1..Len(s) |-> LowerChar(s[i])]

IsSpace(c) == c = " "

RECURSIVE lstrip(_)
lstrip(s) ==
    IF s # <<>> /\ IsSpace(Head(s)) THEN lstrip(Tail(s)) ELSE s

RECURSIVE rstrip(_)
rstrip(s) ==
    IF s # <<>> /\ IsSpace(s[Len(s)]) THEN rstrip(SubSeq(s, 1, Len(s) - 1)) ELSE s

strip(s) == rstrip(lstrip(s))

\* Python truthiness of a str or a list: empty is falsy
Truthy(s) == s # <<>>

\* lists of length at most n over the set S
SeqsUpTo(S, n) == UNION {[1..k -> S] : k \in 0..n}

ToSet(s) == {s[i] : i \in 1..Len(s)}

\* list[:n]
Prefix(s, n) == SubSeq(s, 1, IF Len(s) < n THEN Len(s) ELSE n)

\* ------------------------------------------------------------------------
\* Input domains
\* ------------------------------------------------------------------------

\* a combat plan dict; None is the empty sequence, a plan is a one-element
\* sequence holding the dict
Plan(npcs, loc, name) ==
    [prepared_for_npcs |-> npcs, prepared_for_location |-> loc, encounter_name |-> name]

NoPlan == <<>>

\* ------------------------------------------------------------------------
\* library/combat_readiness.py
\* ------------------------------------------------------------------------
\* p.lower().strip() for p in participants if p
get_npc_set(participants) ==
    {strip(lower(participants[i])) : i \in {j \in 1..Len(participants) : Truthy(participants[j])}}

Status(action, msg, shown, among, hostileNamed) ==
    [action |-> action, reason |-> [msg |-> msg, shown |-> shown, among |-> among,
                                    hostile |-> hostileNamed]]

\* a slip in lines 66-76: a hostile environment alone asks for no plan
NoPlanStatus_needs_npcs(participants, hostile_environment) ==
    IF Len(participants) > 0
    THEN Status("update", "No combat plan exists but", Prefix(participants, 3), {},
                hostile_environment)
    ELSE Status("keep", "No plan needed - no NPCs and safe environment", <<>>, {}, FALSE)

\* lines 66-76: no plan exists and a threat is present
NoPlanStatus(participants, hostile_environment) ==
    Status("update", "No combat plan exists but",
           IF Len(participants) > 0 THEN Prefix(participants, 3) ELSE <<>>, {},
           hostile_environment)

\* a slip in lines 78-82: the names are compared as written
NewNpcs_as_written(participants, combat_plan) ==
    {participants[i] : i \in {j \in 1..Len(participants) : Truthy(participants[j])}}
        \ ToSet(combat_plan[1].prepared_for_npcs)

\* lines 78-82: new_npcs = current_npcs - plan_npcs
NewNpcs(participants, combat_plan) ==
    get_npc_set(participants) \ get_npc_set(combat_plan[1].prepared_for_npcs)

\* line 90: left_npcs = plan_npcs - current_npcs
LeftNpcs(participants, combat_plan) ==
    get_npc_set(combat_plan[1].prepared_for_npcs) \ get_npc_set(participants)

\* a slip in line 91: half of the names leaving is already significant
SignificantDeparture_at_half(left_npcs, plan_npcs) ==
    left_npcs # {} /\ 2 * Cardinality(left_npcs) >= Cardinality(plan_npcs)

\* line 91: left_npcs and len(left_npcs) > len(plan_npcs) // 2
SignificantDeparture(left_npcs, plan_npcs) ==
    left_npcs # {} /\ Cardinality(left_npcs) > Cardinality(plan_npcs) \div 2

\* a slip in line 99: the locations are compared as written
LocationChanged_as_written(plan_location, specific_location) ==
    /\ Truthy(plan_location)
    /\ Truthy(specific_location)
    /\ plan_location # specific_location

\* lines 98-99: both locations are known and differ, letter case aside
LocationChanged(plan_location, specific_location) ==
    /\ Truthy(plan_location)
    /\ Truthy(specific_location)
    /\ lower(plan_location) # lower(specific_location)

\* lines 66-109: a threat is present (participants or a hostile environment)
CheckWithThreat(participants, specific_location, hostile_environment, combat_plan) ==
    LET has_plan == combat_plan # NoPlan
    IN  IF ~has_plan
        THEN NoPlanStatus(participants, hostile_environment)
        ELSE LET plan_npcs == get_npc_set(combat_plan[1].prepared_for_npcs)
                 plan_location == combat_plan[1].prepared_for_location
                 new_npcs == NewNpcs(participants, combat_plan)
                 left_npcs == LeftNpcs(participants, combat_plan)
             IN  IF new_npcs # {}
                 THEN Status("update", "New NPCs entered the scene", <<>>, new_npcs, FALSE)
                 ELSE IF SignificantDeparture(left_npcs, plan_npcs)
                 THEN Status("update", "Significant NPCs left the scene", <<>>, left_npcs, FALSE)
                 ELSE IF LocationChanged(plan_location, specific_location)
                 THEN Status("update", "Location changed", <<>>, {}, FALSE)
                 ELSE Status("keep", "Combat plan still valid for current NPCs and location",
                             <<>>, {}, FALSE)

\* a slip in lines 54-64: the stale plan is only cleared when it records a
\* location
check_combat_plan_validity_keeps_stale(participants, specific_location, hostile_environment, combat_plan) ==
    IF Len(participants) = 0 /\ ~hostile_environment
    THEN IF combat_plan # NoPlan /\ Truthy(combat_plan[1].prepared_for_location)
         THEN Status("clear", "No NPCs present and environment is not hostile", <<>>, {}, FALSE)
         ELSE Status("keep", "No plan needed - no NPCs and safe environment", <<>>, {}, FALSE)
    ELSE CheckWithThreat(participants, specific_location, hostile_environment, combat_plan)

check_combat_plan_validity(participants, specific_location, hostile_environment, combat_plan) ==
    LET has_npcs == Len(participants) > 0
        has_plan == combat_plan # NoPlan
    IN  IF ~has_npcs /\ ~hostile_environment
        THEN IF has_plan
             THEN Status("clear", "No NPCs present and environment is not hostile", <<>>, {}, FALSE)
             ELSE Status("keep", "No plan needed - no NPCs and safe environment", <<>>, {}, FALSE)
        ELSE CheckWithThreat(participants, specific_location, hostile_environment, combat_plan)

\* ------------------------------------------------------------------------
\* JSON objects as the code reads them
\* ------------------------------------------------------------------------
\* An optional value is a sequence of length 0 (the key is absent or null:
\* dict.get(k) returns None for both) or 1 (the value).
None == <<>>
Some(v) == <<v>>

\* scene_state_patch: kind "null" is a present key holding JSON null
PatchDict(participants, location, hostile, hasPlanKey, plan) ==
    [kind |-> "dict", participants |-> participants, specific_location |-> location,
     hostile_environment |-> hostile, has_combat_plan |-> hasPlanKey, combat_plan |-> plan]

EmptyPatch == PatchDict(None, None, None, FALSE, NoPlan)

NullPatch == [EmptyPatch EXCEPT !.kind = "null"]

\* a parsed JSON object: keys is the set of top-level keys that are present
Dict(keys, intent, confidence, summary, patch, encounter) ==
    [keys |-> keys, intent |-> intent, confidence |-> confidence, turn_summary |-> summary,
     scene_state_patch |-> patch, encounter_name |-> encounter]

EmptyDict == Dict({}, "", "", "", EmptyPatch, "")

PayloadWithPatch(patch) == Dict({"scene_state_patch"}, "", "", "", patch, "")

\* RouterIntent.intent: Literal[...] in library/response_models.py
IntentLabels ==
    {"narrative_short", "narrative_long", "qa_situation", "qa_rules",
     "npc_dialogue", "combat_designer", "travel", "gameplay"}

\* ------------------------------------------------------------------------
\* Agent output text
\* ------------------------------------------------------------------------
\* A text is a sequence of tokens:
\*   "x"  a character of prose          " "  whitespace
\*   "B"  three backticks               "j"  the word json
\*   "{" "}" braces                     "n"  a bare JSON number such as 42
\*   "0"  the bare JSON number 0
\*   "R"  "RunResult:"                  "f"  "Final output (str):"
\*   "M"  a "- 1 new item(s)" line      "S"  "(See RunResult"
\* and body tokens, each one a well-formed list of JSON members without the
\* enclosing braces; BodyDict gives the object such a list parses to.
SpecialistPlan == Plan(<<<<"g">>>>, <<"C">>, "fromSpecialist")

\* json.loads: the text is stripped of surrounding whitespace first
JsonValue(ok, kind, val) == [ok |-> ok, kind |-> kind, val |-> val]

json_loads(text) ==
    LET RouterDict(label) == Dict({"intent", "confidence"}, label, "high", "", EmptyPatch, "")
        BodyTokens ==
            IntentLabels \cup
            {"bogus", "noint", "sum", "pG", "pnull", "pgone", "pD", "pplan", "enc"}
        BodyDict(tok) ==
            CASE tok \in IntentLabels \cup {"bogus"} -> RouterDict(tok)
              [] tok = "noint" -> Dict({"confidence"}, "", "high", "", EmptyPatch, "")
              [] tok = "sum" -> Dict({"turn_summary"}, "", "", "s", EmptyPatch, "")
              [] tok = "pG" -> PayloadWithPatch(PatchDict(Some(<<<<"G">>>>), None, None, FALSE, NoPlan))
              [] tok = "pnull" -> PayloadWithPatch(NullPatch)
              [] tok = "pgone" -> PayloadWithPatch(PatchDict(Some(<<>>), None, Some(FALSE), FALSE, NoPlan))
              [] tok = "pD" -> PayloadWithPatch(PatchDict(None, Some(<<"D">>), Some(TRUE), FALSE, NoPlan))
              [] tok = "pplan" ->
                    PayloadWithPatch(PatchDict(None, None, None, TRUE, <<SpecialistPlan>>))
              [] tok = "enc" -> Dict({"encounter_name"}, "", "", "", EmptyPatch, "new")
              [] OTHER -> EmptyDict
    IN  LET t == strip(text)
            inner == IF Len(t) >= 2 THEN strip(SubSeq(t, 2, Len(t) - 1)) ELSE <<>>
        IN  IF t = <<"n">> THEN JsonValue(TRUE, "number", EmptyDict)
            ELSE IF t = <<"0">> THEN JsonValue(TRUE, "zero", EmptyDict)
            ELSE IF Len(t) >= 2 /\ t[1] = "{" /\ t[Len(t)] = "}"
                    /\ (inner = <<>> \/ (Len(inner) = 1 /\ inner[1] \in BodyTokens))
            THEN JsonValue(TRUE, "dict", IF inner = <<>> THEN EmptyDict ELSE BodyDict(inner[1]))
            ELSE JsonValue(FALSE, "error", EmptyDict)

\* ------------------------------------------------------------------------
\* game_engine.py: JSON_BLOCK_RE: three backticks, json, \s*, group (\{.*?\}), \s*, three
\* backticks, with re.DOTALL
\* ------------------------------------------------------------------------
\* first index >= i that holds no whitespace (Len(t) + 1 when there is none)
RECURSIVE SkipWs(_, _)
SkipWs(t, i) ==
    IF i <= Len(t) /\ IsSpace(t[i]) THEN SkipWs(t, i + 1) ELSE i

SetMin(S) == CHOOSE m \in S : \A o \in S : m <= o

\* re.finditer: leftmost matches, not overlapping, scanning from index i
RECURSIVE finditer(_, _)
finditer(t, i) ==
    LET \* the closing braces that can end group 1 of a match whose "{" is at b:
        \* a "}" followed by \s* and three backticks
        GroupEnds(b) ==
            {c \in (b + 1)..Len(t) :
                /\ t[c] = "}"
                /\ SkipWs(t, c + 1) <= Len(t)
                /\ t[SkipWs(t, c + 1)] = "B"}
        \* does a match of JSON_BLOCK_RE start at index j
        MatchesAt(j) ==
            /\ j + 1 <= Len(t)
            /\ t[j] = "B"
            /\ t[j + 1] = "j"
            /\ SkipWs(t, j + 2) <= Len(t)
            /\ t[SkipWs(t, j + 2)] = "{"
            /\ GroupEnds(SkipWs(t, j + 2)) # {}
        \* the match starting at j: .*? takes the nearest closing brace
        MatchAt(j) ==
            LET gstart == SkipWs(t, j + 2)
                gend == SetMin(GroupEnds(gstart))
            IN  [start |-> j, gstart |-> gstart, gend |-> gend, end |-> SkipWs(t, gend + 1)]
        starts == {s \in i..Len(t) : MatchesAt(s)}
    IN  IF starts = {} THEN <<>>
        ELSE LET m == MatchAt(SetMin(starts))
             IN  <<m>> \o finditer(t, m.end + 1)

\* a slip in line 883: matches[0] instead of matches[-1]
extract_update_payload_first(dm_text) ==
    LET matches == finditer(dm_text, 1)
    IN  IF matches = <<>> THEN None
        ELSE LET first == matches[1]
                 parsed == json_loads(SubSeq(dm_text, first.gstart, first.gend))
             IN  IF parsed.ok /\ parsed.kind = "dict" THEN Some(parsed.val) ELSE None

\* extract_update_payload: group 1 of the last match, parsed; None when
\* there is no match or the parse fails
extract_update_payload(dm_text) ==
    LET matches == finditer(dm_text, 1)
    IN  IF matches = <<>> THEN None
        ELSE LET last == matches[Len(matches)]
                 parsed == json_loads(SubSeq(dm_text, last.gstart, last.gend))
             IN  IF parsed.ok /\ parsed.kind = "dict" THEN Some(parsed.val) ELSE None

\* JSON_BLOCK_RE.sub("", text)
RECURSIVE RemoveMatches(_, _, _)
RemoveMatches(t, matches, from) ==
    IF matches = <<>> THEN SubSeq(t, from, Len(t))
    ELSE SubSeq(t, from, Head(matches).start - 1)
            \o RemoveMatches(t, Tail(matches), Head(matches).end + 1)

strip_json_block(dm_text) == rstrip(RemoveMatches(dm_text, finditer(dm_text, 1), 1))

\* extract_narrative_from_runresult: the text after "Final output (str):" up
\* to the first metadata marker, stripped
extract_narrative_from_runresult(text) ==
    IF text # <<>> /\ text[1] = "R" /\ "f" \in ToSet(text)
    THEN LET f == SetMin({i \in 1..Len(text) : text[i] = "f"})
             stops == {i \in (f + 1)..Len(text) : text[i] \in {"M", "S"}}
             stop == IF stops = {} THEN Len(text) + 1 ELSE SetMin(stops)
         IN  strip(SubSeq(text, f + 1, stop - 1))
    ELSE text

\* str(result) of a RunResult
StrOfRunResult(final_output) ==
    <<"R", " ", "f", " ">> \o final_output \o <<" ", "M", " ", "S">>

\* ------------------------------------------------------------------------
\* library/retry.py
\* ------------------------------------------------------------------------
DEFAULT_MAX_ATTEMPTS == 3
DEFAULT_BASE_DELAY == 1
DEFAULT_MAX_DELAY == 8

\* a slip in lines 71 and 121: the delay doubles without the cap
BackoffDelay_uncapped(k, base_delay, max_delay) == base_delay * (2 ^ (k - 1))

\* delay = min(base_delay * (2 ** (attempt - 1)), max_delay)
BackoffDelay(k, base_delay, max_delay) ==
    LET Min(a, b) == IF a < b THEN a ELSE b
    IN  Min(base_delay * (2 ^ (k - 1)), max_delay)

\* An exception object: its class, its status_code (0 when the class has
\* none) and the attempt that raised it, which tells one object from another.
Exc(class, status_code, raised_at) ==
    [class |-> class, status_code |-> status_code, raised_at |-> raised_at]

isinstance(exc, classes) ==
    LET \* the classes an exception of the given class is an instance of
        Bases(class) ==
            CASE class = "RateLimitError" -> {"RateLimitError", "APIStatusError", "APIError", "Exception"}
              [] class = "InternalServerError" ->
                    {"InternalServerError", "APIStatusError", "APIError", "Exception"}
              [] class = "AuthenticationError" ->
                    {"AuthenticationError", "APIStatusError", "APIError", "Exception"}
              [] class = "APIStatusError" -> {"APIStatusError", "APIError", "Exception"}
              [] class = "APITimeoutError" ->
                    {"APITimeoutError", "APIConnectionError", "APIError", "Exception"}
              [] class = "APIConnectionError" -> {"APIConnectionError", "APIError", "Exception"}
              [] class = "ValueError" -> {"ValueError", "Exception"}
              [] class = "Exception" -> {"Exception"}
              [] class = "CancelledError" -> {"CancelledError", "BaseException"}
              [] class = "AssertionError" -> {"AssertionError", "Exception"}
              [] class = "TypeError" -> {"TypeError", "Exception"}
              [] class = "RuntimeError" -> {"RuntimeError", "Exception"}
    IN  Bases(exc.class) \cap classes # {}

TRANSIENT_EXCEPTIONS ==
    {"RateLimitError", "APITimeoutError", "APIConnectionError", "InternalServerError"}

\* a slip in line 30: every status error is worth retrying
is_transient_error_any_status(exc) ==
    IF isinstance(exc, TRANSIENT_EXCEPTIONS) THEN TRUE
    ELSE isinstance(exc, {"APIStatusError"})

is_transient_error(exc) ==
    IF isinstance(exc, TRANSIENT_EXCEPTIONS) THEN TRUE
    ELSE IF isinstance(exc, {"APIStatusError"}) /\ exc.status_code \in {502, 503, 504} THEN TRUE
    ELSE FALSE

\* a slip in lines 110-119: a fatal error is retried like a transient one
RetryDecision_retries_fatal(caught, transient, attempt, max_attempts) ==
    IF ~caught THEN "propagate"
    ELSE IF attempt = max_attempts THEN "raise"
    ELSE "sleep"

\* lines 107-127: what the except clause does with the error of an attempt;
\* an exception that is no Exception is not caught at all
RetryDecision(caught, transient, attempt, max_attempts) ==
    IF ~caught THEN "propagate"
    ELSE IF ~transient THEN "raise"
    ELSE IF attempt = max_attempts THEN "raise"
    ELSE "sleep"

\* the arguments of one call of run_with_retry, or of a function decorated
\* with retry_on_transient (wrapper)
RetryArgs(wrapper, max_attempts, base_delay, max_delay, args, kwargs) ==
    [wrapper |-> wrapper, max_attempts |-> max_attempts, base_delay |-> base_delay,
     max_delay |-> max_delay, args |-> args, kwargs |-> kwargs]

\* run_with_retry(Runner.run, agent, prompt, hooks=LocalRunLogger())
RunnerArgs(agent) ==
    RetryArgs("run_with_retry", DEFAULT_MAX_ATTEMPTS, DEFAULT_BASE_DELAY, DEFAULT_MAX_DELAY,
              <<agent, "prompt">>, {"hooks"})

NoRetryArgs ==
    RetryArgs("run_with_retry", DEFAULT_MAX_ATTEMPTS, DEFAULT_BASE_DELAY, DEFAULT_MAX_DELAY,
              <<>>, {})

\* coro_func(*args, **kwargs)
Invocation(ra) == [args |-> ra.args, kwargs |-> ra.kwargs]

\* what run_with_retry gave back to its caller
Outcome(kind, value, exc) == [kind |-> kind, value |-> value, exc |-> exc]

NoOutcome == Outcome("none", "", None)

\* ------------------------------------------------------------------------
\* library/token_budget.py
\* ------------------------------------------------------------------------

DEFAULT_BUDGET == 6000

\* os.environ.get(env_key): unset, empty, not a number, or the digits of n
EnvValue(kind, n) == [kind |-> kind, int |-> n]

\* get_budget: the override when it is set, non-empty and int() accepts it
get_budget(type, env) ==
    LET BUDGETS ==
            [router |-> 1000, narrative_short |-> 6000, narrative_long |-> 8000,
             qa_rules |-> 5000, qa_situation |-> 5000, npc_dialogue |-> 6000,
             combat_designer |-> 8000, travel |-> 6000, gameplay |-> 7000]
    IN  IF env.kind = "int" THEN env.int
        ELSE IF type \in DOMAIN BUDGETS THEN BUDGETS[type] ELSE DEFAULT_BUDGET

\* The encoder is byte-level: a text is a sequence of characters
\*   "a" "b"  letters of one byte; the pair a b is one token "ab"
\*   "E"      a character of two bytes, each byte a token ("E1", "E2")
\*   "?"      U+FFFD, one token
\* encoder.encode
RECURSIVE encode(_)
encode(text) ==
    IF text = <<>> THEN <<>>
    ELSE IF Len(text) >= 2 /\ text[1] = "a" /\ text[2] = "b"
    THEN <<"ab">> \o encode(SubSeq(text, 3, Len(text)))
    ELSE IF text[1] = "E" THEN <<"E1", "E2">> \o encode(Tail(text))
    ELSE <<text[1]>> \o encode(Tail(text))

\* encoder.decode: the bytes of the tokens, decoded with errors="replace":
\* a byte of "E" without its other byte becomes U+FFFD
RECURSIVE decode(_)
decode(tokens) ==
    IF tokens = <<>> THEN <<>>
    ELSE IF tokens[1] = "ab" THEN <<"a", "b">> \o decode(Tail(tokens))
    ELSE IF tokens[1] = "E1" /\ Len(tokens) >= 2 /\ tokens[2] = "E2"
    THEN <<"E">> \o decode(SubSeq(tokens, 3, Len(tokens)))
    ELSE IF tokens[1] \in {"E1", "E2"} THEN <<"?">> \o decode(Tail(tokens))
    ELSE <<tokens[1]>> \o decode(Tail(tokens))

\* count_tokens
count_tokens(text) == IF text = <<>> THEN 0 ELSE Len(encode(text))

\* trim_to_budget
trim_to_budget(text, limit, keep_end) ==
    LET \* tokens[-n:]
        SliceLast(tokens, n) ==
            IF n > 0
            THEN IF n >= Len(tokens) THEN tokens
                 ELSE SubSeq(tokens, Len(tokens) - n + 1, Len(tokens))
            ELSE IF -n >= Len(tokens) /\ n # 0 THEN <<>>
                 ELSE SubSeq(tokens, 1 - n, Len(tokens))
        \* tokens[:n]
        SliceFirst(tokens, n) ==
            IF n >= 0
            THEN IF n >= Len(tokens) THEN tokens ELSE SubSeq(tokens, 1, n)
            ELSE IF -n >= Len(tokens) THEN <<>>
                 ELSE SubSeq(tokens, 1, Len(tokens) + n)
    IN  IF text = <<>> THEN text
        ELSE IF Len(encode(text)) <= limit THEN text
        ELSE IF keep_end THEN decode(SliceLast(encode(text), limit))
        ELSE decode(SliceFirst(encode(text), limit))

\* usage_percent, a quotient
Percent(num, den) == [num |-> num, den |-> den]

\* the metadata dict of lines 146-155 and 180-197
Metadata(type, token_count, budget, usage_percent, over_budget_by, was_trimmed, original) ==
    [agent_type |-> type, token_count |-> token_count, budget |-> budget,
     usage_percent |-> usage_percent, over_budget_by |-> over_budget_by,
     was_trimmed |-> was_trimmed, original_token_count |-> original]

\* validate_context
validate_context(type, text, env) ==
    LET budget == get_budget(type, env)
        token_count == count_tokens(text)
    IN  [is_valid |-> token_count <= budget,
         metadata |->
            Metadata(type, token_count, budget,
                     IF budget > 0 THEN Percent(token_count * 100, budget)
                     ELSE Percent(0, 1),
                     IF token_count - budget > 0 THEN token_count - budget ELSE 0,
                     None, None)]

\* enforce_budget
enforce_budget(type, text, env) ==
    LET v == validate_context(type, text, env)
        budget == get_budget(type, env)
    IN  IF v.is_valid
        THEN [text |-> text, metadata |-> [v.metadata EXCEPT !.was_trimmed = Some(FALSE)]]
        ELSE [text |-> trim_to_budget(text, budget, TRUE),
              metadata |-> [v.metadata EXCEPT
                                !.was_trimmed = Some(TRUE),
                                !.original_token_count = Some(v.metadata.token_count),
                                !.token_count = budget,
                                !.usage_percent = Percent(100, 1)]]

\* ------------------------------------------------------------------------
\* game_engine.py: SceneState and merge_scene_patch
\* ------------------------------------------------------------------------
MaxPatchKeys == 2
MaxMerges == 2

\* the fields of the pydantic model SceneState, by annotation
StrFields == {"time_of_day", "region", "sub_region", "specific_location"}
ListFields == {"participants", "exits"}
SceneFields == StrFields \cup ListFields

\* a JSON value of a patch: its type, and its content when it is a string
\* or a list of strings; "items" is a list with an item that is no string
JValue(type, str, list) == [type |-> type, str |-> str, list |-> list]
JStr(s) == JValue("str", s, <<>>)
JList(l) == JValue("list", <<>>, l)

\* lines 709-716: the scene play_turn starts from
PlaceholderScene ==
    [k \in SceneFields |->
        IF k \in StrFields THEN JStr(<<"u">>) ELSE JList(<<<<"u">>>>)]

\* the result of a call: the object returned, or the ValidationError raised
MergeResult(raised, scene) == [raised |-> raised, scene |-> scene]

\* a slip in lines 929-933: scene.model_copy(update=patch), which takes
\* every key and validates nothing
merge_scene_patch_unvalidated(scene, p) ==
    MergeResult(FALSE, [k \in DOMAIN scene \cup DOMAIN p |->
                            IF k \in DOMAIN p THEN p[k] ELSE scene[k]])

\* merge_scene_patch: keys that are no field of SceneState are ignored by
\* the constructor
merge_scene_patch(scene, p) ==
    LET \* lines 929-932: data = scene.model_dump(), then every key of the patch
        \* whose value is not None is set
        data ==
            [k \in DOMAIN scene \cup {j \in DOMAIN p : p[j] # JValue("null", <<>>, <<>>)} |->
                IF k \in DOMAIN p /\ p[k] # JValue("null", <<>>, <<>>) THEN p[k] ELSE scene[k]]
        \* SceneState(**data): pydantic validates each field against its annotation
        Validates ==
            /\ SceneFields \subseteq DOMAIN data
            /\ \A k \in StrFields : data[k].type = "str"
            /\ \A k \in ListFields : data[k].type = "list"
    IN  IF Validates
        THEN MergeResult(FALSE, [k \in SceneFields |-> data[k]])
        ELSE MergeResult(TRUE, scene)

\* one call and what it left behind
MergeCall(kind, base_before, base_after, p, returned_new) ==
    [kind |-> kind, base_before |-> base_before, base_after |-> base_after,
     patch |-> p, returned_new |-> returned_new]

\* ------------------------------------------------------------------------
\* orchestration/turn_router.py: build_agent_context
\* ------------------------------------------------------------------------
\* A context is a text of characters: those of the token budget, and
\*   "P" "S" "R" "D"  the session plan, the scene state, and the keys
\*                    recent_recap and dm_input as str(dict) prints them
\*   "{" "}"          the braces of str(dict)
\*   "n"              a newline          "p"  "Player:"       " "  a space
\*   "h"              "(No recent history)"
\*   "u" "v"          characters of the player's input
\* session_context: each key is missing (None) or holds a value
SessionContext(session_plan, scene_state_repr, recent_recap, dm_input) ==
    [session_plan |-> session_plan, scene_state |-> scene_state_repr,
     recent_recap |-> recent_recap, dm_input |-> dm_input]

\* str(session_context): the keys the dict holds, in order
StrOfDict(sc) ==
    <<"{">>
        \o (IF sc.session_plan = None THEN <<>> ELSE sc.session_plan[1])
        \o (IF sc.scene_state = None THEN <<>> ELSE sc.scene_state[1])
        \o (IF sc.recent_recap = None THEN <<>> ELSE <<"R">> \o sc.recent_recap[1])
        \o (IF sc.dm_input = None THEN <<>> ELSE <<"D">> \o sc.dm_input[1])
        \o <<"}">>

\* the f-string of lines 50-88
FullContext(sc, input) == StrOfDict(sc) \o <<"n", "n", "p", " ">> \o input

\* a slip in line 47: the classifier is given the full context as well
ContextFor_router_full(type, sc, input) == FullContext(sc, input)

\* lines 46-88: the context by agent type, before the budget
ContextFor(type, sc, input) ==
    LET \* line 44: session_context.get("recent_recap", "")
        recap == IF sc.recent_recap = None THEN <<>> ELSE sc.recent_recap[1]
    IN  IF type = "router"
        THEN IF Truthy(recap) THEN recap ELSE <<"h">>
        ELSE IF type \in {"narrative_short", "narrative_long"} THEN FullContext(sc, input)
        ELSE IF type = "qa_rules" THEN FullContext(sc, input)
        ELSE IF type = "npc_dialogue" THEN FullContext(sc, input)
        ELSE IF type = "combat_designer" THEN FullContext(sc, input)
        ELSE IF type = "qa_situation" THEN FullContext(sc, input)
        ELSE IF type = "travel" THEN FullContext(sc, input)
        ELSE IF type = "gameplay" THEN FullContext(sc, input)
        ELSE FullContext(sc, input)

\* build_agent_context
build_agent_context(type, sc, input, enforce, env) ==
    IF enforce THEN enforce_budget(type, ContextFor(type, sc, input), env).text
    ELSE ContextFor(type, sc, input)

\* ------------------------------------------------------------------------
\* game_engine.py: the session record and play_turn
\* ------------------------------------------------------------------------
MaxTurns == 2

\* lines 512-522: the session file
Session(status, turn_count, summary, initial_patch, chat_history) ==
    [status |-> status, turn_count |-> turn_count, summary |-> summary,
     initial_scene_state_patch |-> initial_patch, chat_history |-> chat_history]

\* a slip in line 825: the record is numbered with the count before the turn
TurnNumber_same(s) == s.turn_count

\* line 825
TurnNumber(s) == s.turn_count + 1

\* one call of play_turn: how it ended, and the scene state it built in
\* lines 709-724 and gave to the context of the agents
TurnCall(outcome, error_text, multi, prior_count, scene_read, recap, calls_made) ==
    [outcome |-> outcome, error |-> error_text, use_multi_agent |-> multi,
     prior_count |-> prior_count, scene_read |-> scene_read, recent_recap |-> recap,
     calls |-> calls_made]

\* ------------------------------------------------------------------------
\* State
\* ------------------------------------------------------------------------
VARIABLES
    pc,                   \* position of the turn
    stage,                \* the remote call run_with_retry is making
    attempt,              \* attempt number inside run_with_retry
    sleeps,               \* delays slept inside the current run_with_retry
    calls,                \* agents given to run_with_retry, in order
    retry_args,           \* arguments of the current call of run_with_retry
    invocations,          \* invocations of coro_func inside the current call
    last_exception,       \* last_exception of run_with_retry
    retry_outcome,        \* result or exception a bare run_with_retry ended with
    agents,               \* keys of the agents dict that hold an agent
    scene_state,          \* session_context["scene_state"]
    router_result,        \* what the classifier call produced
    intent,
    confidence,
    note,
    specialist_agent,     \* key of the agent chosen in step 2
    extracted_payload,    \* update_payload as extracted from the specialist
    update_payload,
    dm_response,
    current_participants, \* arguments of check_combat_plan_validity
    current_location,
    current_hostile,
    current_plan,
    status,               \* result of check_combat_plan_validity
    combat_plan_action,
    result,               \* the dict orchestrate_turn returns
    error,                \* the exception orchestrate_turn raises
    trace,                \* steps of the pipeline taken so far
    specialist_response_raw,   \* text the specialist's result gives
    specialist_response_clean, \* the text after extract_narrative_from_runresult
    returned_payload,     \* what extract_update_payload returned
    agent_type,           \* arguments of the TokenBudget methods
    env_value,            \* os.environ.get("TOKEN_BUDGET_<TYPE>")
    context,
    max_tokens,
    preserve_end,
    budget_call,          \* the TokenBudget method that was called
    returned_text,        \* the text it returned
    metadata,             \* the metadata enforce_budget returned
    engine_scene,         \* the SceneState play_turn holds
    merge_call,           \* the last call of merge_scene_patch
    merges,               \* calls of merge_scene_patch so far
    session_context,      \* arguments of build_agent_context
    user_input,
    enforce_flag,         \* its argument enforce_budget
    session,              \* the session file
    turn_call,            \* the last call of play_turn
    tasks,                \* the calls of the engine that are running on the event loop
    memory,               \* the items uploaded to the campaign's memory store
    session_files,        \* status of the session files of the campaign, by session_id
    clock,                \* int(time.time())
    active_connections,   \* ConnectionManager.active_connections
    sockets,              \* state of every WebSocket of the server
    delivered,            \* the last message a handler sent: from its socket, to which
    wrapped,              \* the function given to both retry entry points
    entry_runs            \* the run of each retry entry point on it

vars ==
    <<pc, stage, attempt, sleeps, calls, retry_args, invocations, last_exception,
      retry_outcome, agents, scene_state, router_result, intent,
      confidence, note, specialist_agent, extracted_payload, update_payload, dm_response,
      current_participants, current_location, current_hostile, current_plan, status,
      combat_plan_action, result, error, trace,
      specialist_response_raw, specialist_response_clean, returned_payload,
      agent_type, env_value, context, max_tokens, preserve_end, budget_call,
      returned_text, metadata, engine_scene, merge_call, merges,
      session_context, user_input, enforce_flag, session, turn_call,
      tasks, memory, session_files, clock, active_connections, sockets, delivered,
      wrapped, entry_runs>>

retryVars ==
    <<stage, attempt, sleeps, calls, retry_args, invocations, last_exception, retry_outcome>>
routeVars == <<router_result, intent, confidence, note, specialist_agent>>
checkVars == <<current_participants, current_location, current_hostile, current_plan, status>>
turnVars ==
    <<agents, scene_state, routeVars, extracted_payload, update_payload, dm_response,
      checkVars, combat_plan_action, result, error, trace>>
extractVars == <<specialist_response_raw, specialist_response_clean, returned_payload>>
\* the state the other entry points of the engine work on
budgetVars ==
    <<agent_type, env_value, context, max_tokens, preserve_end, budget_call,
      returned_text, metadata>>
mergeVars == <<engine_scene, merge_call, merges>>
contextVars == <<session_context, user_input, enforce_flag>>
playVars == <<session, turn_call>>
\* the state of the server around the engine
serverVars == <<tasks, memory, session_files, clock>>
connectionVars == <<active_connections, sockets, delivered>>
entryVars == <<wrapped, entry_runs>>
serviceVars == <<serverVars, connectionVars, entryVars>>
engineVars == <<extractVars, budgetVars, mergeVars, contextVars, playVars, serviceVars>>

\* ------------------------------------------------------------------------
\* Values before they are assigned
\* ------------------------------------------------------------------------
SceneDict(participants, location, hostile, plan) ==
    [kind |-> "dict", participants |-> participants, specific_location |-> location,
     hostile_environment |-> hostile, combat_plan |-> plan]

\* the SceneState object play_turn passes: a pydantic model, not a dict
SceneModel(participants, location) ==
    [kind |-> "model", participants |-> participants, specific_location |-> location,
     hostile_environment |-> FALSE, combat_plan |-> NoPlan]

NoReason == [msg |-> "", shown |-> <<>>, among |-> {}, hostile |-> FALSE]

NoStatus == [action |-> "none", reason |-> NoReason]

PlanAction(action, reason, hasPlanKey, plan) ==
    [action |-> action, reason |-> reason, has_combat_plan |-> hasPlanKey, combat_plan |-> plan]

NoPlanAction == PlanAction("none", NoReason, FALSE, NoPlan)

NoRouterResult == [kind |-> "none", intent |-> "", text |-> <<>>]

NoResult ==
    [returned |-> FALSE, dm_response |-> <<>>, update_payload |-> EmptyDict,
     intent_used |-> "", routing_note |-> "", combat_plan_action |-> NoPlanAction]

NoError == [type |-> "none", agent |-> "", cause |-> ""]

\* ------------------------------------------------------------------------
\* Inputs of a turn
\* ------------------------------------------------------------------------
\* setup_agents_for_campaign registers every specialist; the unit tests
\* register fewer.  "router" and "narrative_short" are in every registry.
AllAgents == IntentLabels \cup {"router"}

OldPlan == Plan(<<<<"g">>>>, <<"C">>, "old")

Bare(b) == <<"{", b, "}", " ">>

Fenced(b) == <<"x", " ", "B", "j", " ", "{", b, "}", " ", "B">>

Prose == <<"x">>

MalformedBlock == <<"x", "B", "j", "{", "x", "}", "B">>

\* what Runner.run returns for the router: shape and label record how the
\* output was built, text is what the code sees
RouterOutput(shape, label, text) == [kind |-> shape, intent |-> label, text |-> text]

RouterOutputs ==
    {RouterOutput("object", l, <<>>) : l \in IntentLabels}
    \cup {RouterOutput("bare", l, Bare(l)) : l \in IntentLabels \cup {"bogus"}}
    \cup {RouterOutput("fenced", l, Fenced(l)) : l \in {"qa_rules", "travel", "bogus"}}
    \cup {RouterOutput("fenced", "qa_rules", Fenced("travel") \o <<" ">> \o Fenced("qa_rules")),
          RouterOutput("nointent", "", Bare("noint")),
          RouterOutput("prose", "", Prose),
          RouterOutput("malformed", "", MalformedBlock),
          RouterOutput("number", "", <<"n">>),
          RouterOutput("zero", "", <<"0">>)}

\* final_output of the specialist's RunResult
SpecialistOutputs ==
    {Prose, <<>>, MalformedBlock, Fenced("pG") \o <<" ">> \o Fenced("sum")}
    \cup {Fenced(b) : b \in {"sum", "pG", "pnull", "pgone", "pD", "pplan"}}

\* final_output of the combat designer's RunResult
DesignerOutputs == {Fenced("enc"), Prose}

\* ------------------------------------------------------------------------
\* orchestration/turn_router.py: orchestrate_turn, step 1 (classification)
\* ------------------------------------------------------------------------
Classified(raised, i, c, n) == [raised |-> raised, intent |-> i, confidence |-> c, note |-> n]


InvalidFormat == Classified(FALSE, "narrative_short", "low", "Router returned invalid format")

\* lines 254-284: the else branch of the try around the router call
ClassifyOutput(out) ==
    IF out.kind = "object"
    THEN Classified(FALSE, out.intent, "medium", "router")
    ELSE LET loaded == json_loads(strip(out.text))
             fenced == extract_update_payload(out.text)
         IN  IF loaded.ok /\ loaded.kind = "number"
             THEN \* "intent" not in 42 raises TypeError
                  Classified(TRUE, "", "", "")
             ELSE IF loaded.ok /\ loaded.kind = "zero" THEN InvalidFormat
             ELSE LET router_data == IF loaded.ok THEN Some(loaded.val) ELSE fenced
                  IN  IF router_data = None
                         \/ router_data[1].keys = {}
                         \/ "intent" \notin router_data[1].keys
                      THEN InvalidFormat
                      ELSE Classified(FALSE, router_data[1].intent,
                                      IF "confidence" \in router_data[1].keys
                                      THEN router_data[1].confidence ELSE "medium",
                                      "router")

\* lines 289-306: agent_map.get(intent), with the narrative_short fallback
Registered(i) == i \in IntentLabels /\ i \in agents

\* lines 301-305: the key of the agent that will run
SelectedAgent(i) == IF Registered(i) THEN i ELSE "narrative_short"

\* line 306 left out: the reported intent is not corrected
CorrectedIntent_uncorrected(i) == i

\* line 306: the intent reported for the turn
CorrectedIntent(i) == IF Registered(i) THEN i ELSE "narrative_short"

\* the variables of the operations that have not been called: the operations
\* are "turn" (orchestrate_turn and run_with_retry), "extract", "budget",
\* "merge", "context" (build_agent_context), "play" (play_turn), "server"
\* (the calls the server runs side by side), "connections" (the
\* ConnectionManager) and "entries" (the two retry entry points)
Idle(uncalled) ==
    /\ IF "turn" \in uncalled
       THEN /\ stage = "none"
            /\ attempt = 0
            /\ sleeps = <<>>
            /\ calls = <<>>
            /\ retry_args = NoRetryArgs
            /\ invocations = <<>>
            /\ last_exception = None
            /\ retry_outcome = NoOutcome
            /\ agents = AllAgents
            /\ scene_state = SceneDict(<<>>, <<>>, FALSE, NoPlan)
            /\ router_result = NoRouterResult
            /\ intent = ""
            /\ confidence = ""
            /\ note = ""
            /\ specialist_agent = ""
            /\ extracted_payload = EmptyDict
            /\ update_payload = EmptyDict
            /\ dm_response = <<>>
            /\ current_participants = <<>>
            /\ current_location = <<>>
            /\ current_hostile = FALSE
            /\ current_plan = NoPlan
            /\ status = NoStatus
            /\ combat_plan_action = NoPlanAction
            /\ result = NoResult
            /\ error = NoError
            /\ trace = <<>>
       ELSE TRUE
    /\ IF "extract" \in uncalled
       THEN /\ specialist_response_raw = <<>>
            /\ specialist_response_clean = <<>>
            /\ returned_payload = None
       ELSE TRUE
    /\ IF "budget" \in uncalled
       THEN /\ agent_type = ""
            /\ env_value = EnvValue("unset", 0)
            /\ context = <<>>
            /\ max_tokens = 0
            /\ preserve_end = TRUE
            /\ budget_call = "none"
            /\ returned_text = <<>>
            /\ metadata = Metadata("", 0, 0, Percent(0, 1), 0, None, None)
       ELSE TRUE
    /\ IF "merge" \in uncalled
       THEN /\ engine_scene = PlaceholderScene
            /\ merge_call = MergeCall("none", PlaceholderScene, PlaceholderScene, <<>>, FALSE)
            /\ merges = 0
       ELSE TRUE
    /\ IF "context" \in uncalled
       THEN /\ session_context = SessionContext(None, None, None, None)
            /\ user_input = <<>>
            /\ enforce_flag = TRUE
       ELSE TRUE
    /\ IF "play" \in uncalled
       THEN /\ session = Session("none", 0, "", <<>>, <<>>)
            /\ turn_call = TurnCall("none", "", FALSE, 0, PlaceholderScene, <<>>, 0)
       ELSE TRUE
    /\ IF "server" \in uncalled
       THEN /\ tasks = <<>>
            /\ memory = <<>>
            /\ session_files = <<>>
            /\ clock = 0
       ELSE TRUE
    /\ IF "connections" \in uncalled
       THEN /\ active_connections = <<>>
            /\ sockets = <<>>
            /\ delivered = <<>>
       ELSE TRUE
    /\ IF "entries" \in uncalled
       THEN /\ wrapped = <<>>
            /\ entry_runs = <<>>
       ELSE TRUE

\* ------------------------------------------------------------------------
\* Actions
\* ------------------------------------------------------------------------
\* lines 229-247: the router call is handed to run_with_retry
StartTurn ==
    /\ pc = "start"
    /\ "router" \in agents
    /\ pc' = "call"
    /\ stage' = "router"
    /\ attempt' = 1
    /\ sleeps' = <<>>
    /\ calls' = Append(calls, "router")
    /\ retry_args' = RunnerArgs("router")
    /\ invocations' = <<Invocation(RunnerArgs("router"))>>
    /\ last_exception' = None
    /\ UNCHANGED retry_outcome
    /\ trace' = Append(trace, "classify")
    /\ UNCHANGED <<engineVars, agents, scene_state, routeVars, extracted_payload, update_payload,
                   dm_response, checkVars, combat_plan_action, result, error>>

\* the transient error the remote calls of a turn fail with
TurnTransientErrors == {Exc("RateLimitError", 429, 0)}

\* lines 107-127: the attempt raises an error that is caught, transient and
\* not the last attempt's: the delay is computed and the sleep starts
AttemptTransient(exc) ==
    /\ pc = "call"
    /\ RetryDecision(isinstance(exc, {"Exception"}), is_transient_error(exc), attempt,
                     retry_args.max_attempts) = "sleep"
    /\ pc' = "sleep"
    /\ last_exception' = Some([exc EXCEPT !.raised_at = attempt])
    /\ sleeps' = Append(sleeps, BackoffDelay(attempt, retry_args.base_delay,
                                             retry_args.max_delay))
    /\ UNCHANGED <<stage, attempt, calls, retry_args, invocations, retry_outcome, engineVars, agents,
                   scene_state, routeVars, extracted_payload,
                   update_payload, dm_response, checkVars, combat_plan_action, result,
                   error, trace>>

\* a slip in line 106: the keyword arguments are lost on a retry
Wake_drops_kwargs ==
    /\ pc = "sleep"
    /\ pc' = "call"
    /\ attempt' = attempt + 1
    /\ invocations' = Append(invocations, [args |-> retry_args.args, kwargs |-> {}])
    /\ UNCHANGED <<stage, sleeps, calls, retry_args, last_exception, retry_outcome, engineVars, agents,
                   scene_state, routeVars, extracted_payload,
                   update_payload, dm_response, checkVars, combat_plan_action, result,
                   error, trace>>

\* lines 127, 104-106: asyncio.sleep returns and the next attempt invokes
\* coro_func(*args, **kwargs)
Wake ==
    /\ pc = "sleep"
    /\ pc' = "call"
    /\ attempt' = attempt + 1
    /\ invocations' = Append(invocations, Invocation(retry_args))
    /\ UNCHANGED <<stage, sleeps, calls, retry_args, last_exception, retry_outcome, engineVars, agents,
                   scene_state, routeVars, extracted_payload,
                   update_payload, dm_response, checkVars, combat_plan_action, result,
                   error, trace>>

\* the errors run_with_retry re-raises at this attempt: a non-transient one
\* at any attempt, a transient one at the last attempt
RaisedCauses ==
    {"fatal"} \cup
    (IF RetryDecision(TRUE, TRUE, attempt, retry_args.max_attempts) = "raise"
     THEN {"transient"} ELSE {})

\* lines 286-313: with the intent resolved, pick the specialist and hand its
\* call to run_with_retry
Dispatch(rr, c) ==
    /\ router_result' = rr
    /\ confidence' = c.confidence
    /\ note' = c.note
    /\ IF ~Registered(c.intent) /\ "narrative_short" \notin agents
       THEN \* agents["narrative_short"] raises KeyError
            /\ pc' = "raised"
            /\ error' = [type |-> "KeyError", agent |-> "", cause |-> ""]
            /\ intent' = c.intent
            /\ trace' = Append(trace, "dispatch")
            /\ UNCHANGED <<specialist_agent, retryVars>>
       ELSE /\ pc' = "call"
            /\ intent' = CorrectedIntent(c.intent)
            /\ specialist_agent' = SelectedAgent(c.intent)
            /\ stage' = "specialist"
            /\ attempt' = 1
            /\ sleeps' = <<>>
            /\ calls' = Append(calls, SelectedAgent(c.intent))
            /\ retry_args' = RunnerArgs(SelectedAgent(c.intent))
            /\ invocations' = <<Invocation(RunnerArgs(SelectedAgent(c.intent)))>>
            /\ last_exception' = None
            /\ UNCHANGED retry_outcome
            /\ trace' = trace \o <<"dispatch", "generate">>
            /\ UNCHANGED error
    /\ UNCHANGED <<engineVars, agents, scene_state, extracted_payload, update_payload, dm_response,
                   checkVars, combat_plan_action, result>>

\* line 247 returns: lines 254-313
RouterReturns(out) ==
    /\ pc = "call"
    /\ stage = "router"
    /\ IF ClassifyOutput(out).raised
       THEN /\ pc' = "raised"
            /\ error' = [type |-> "TypeError", agent |-> "", cause |-> "router output"]
            /\ router_result' = out
            /\ UNCHANGED <<retryVars, engineVars, agents, scene_state, intent, confidence, note,
                           specialist_agent, extracted_payload, update_payload, dm_response,
                           checkVars, combat_plan_action, result, trace>>
       ELSE Dispatch(out, ClassifyOutput(out))

\* line 247 raises: lines 248-253, then 286-313
RouterRaises(cause) ==
    /\ pc = "call"
    /\ stage = "router"
    /\ cause \in RaisedCauses
    /\ Dispatch(RouterOutput("raised", "", <<>>),
                Classified(FALSE, "narrative_short", "low", "Router failed"))

\* lines 314-315: the error of the specialist is wrapped and raised
SpecialistRaises(cause) ==
    /\ pc = "call"
    /\ stage = "specialist"
    /\ cause \in RaisedCauses
    /\ pc' = "raised"
    /\ error' = [type |-> "Exception", agent |-> intent, cause |-> cause]
    /\ UNCHANGED <<retryVars, engineVars, agents, scene_state, routeVars, extracted_payload,
                   update_payload, dm_response, checkVars, combat_plan_action, result, trace>>

\* lines 318-323: final_output or ... or str(result)
ResponseRaw(final_output) ==
    IF Truthy(final_output) THEN final_output ELSE StrOfRunResult(final_output)

\* extract_update_payload(text) or {}
PayloadOrEmpty(text) ==
    IF extract_update_payload(text) = None THEN EmptyDict ELSE extract_update_payload(text)[1]

\* lines 330-342 left out: the turn returns right after the extraction
SpecialistReturns_skips_check(final_output) ==
    /\ pc = "call"
    /\ stage = "specialist"
    /\ LET clean == extract_narrative_from_runresult(ResponseRaw(final_output))
       IN  /\ update_payload' = PayloadOrEmpty(clean)
           /\ extracted_payload' = PayloadOrEmpty(clean)
           /\ dm_response' = strip_json_block(clean)
           /\ result' = [returned |-> TRUE,
                         dm_response |-> strip_json_block(clean),
                         update_payload |-> PayloadOrEmpty(clean),
                         intent_used |-> intent,
                         routing_note |-> note,
                         combat_plan_action |-> NoPlanAction]
    /\ pc' = "done"
    /\ stage' = "none"
    /\ trace' = trace \o <<"extract", "return">>
    /\ UNCHANGED <<attempt, sleeps, calls, retry_args, invocations, last_exception,
                   retry_outcome, engineVars, agents, scene_state, routeVars, checkVars,
                   combat_plan_action, error>>

\* line 313 returns: lines 317-328
SpecialistReturns(final_output) ==
    /\ pc = "call"
    /\ stage = "specialist"
    /\ LET clean == extract_narrative_from_runresult(ResponseRaw(final_output))
       IN  /\ update_payload' = PayloadOrEmpty(clean)
           /\ extracted_payload' = PayloadOrEmpty(clean)
           /\ dm_response' = strip_json_block(clean)
    /\ pc' = "extracted"
    /\ stage' = "none"
    /\ trace' = Append(trace, "extract")
    /\ UNCHANGED <<attempt, sleeps, calls, retry_args, invocations, last_exception,
                   retry_outcome, engineVars, agents, scene_state, routeVars, checkVars,
                   combat_plan_action, result, error>>

\* ------------------------------------------------------------------------
\* orchestration/turn_router.py: check_and_update_combat_plan
\* ------------------------------------------------------------------------
\* line 112: update_payload.get("scene_state_patch", {})
ScenePatchOf(payload) ==
    IF "scene_state_patch" \in payload.keys THEN payload.scene_state_patch ELSE EmptyPatch

\* lines 111-119 raise AttributeError when scene_patch is None, or when
\* scene_state is an object without a get method (line 118 is always reached)
CheckRaises(scene, payload) ==
    ScenePatchOf(payload).kind = "null" \/ scene.kind = "model"

\* line 114: scene_patch.get("participants") or scene_state.get("participants", [])
CurrentParticipants(scene, patch) ==
    IF patch.participants # None /\ Truthy(patch.participants[1])
    THEN patch.participants[1]
    ELSE scene.participants

\* line 115
CurrentLocation(scene, patch) ==
    IF patch.specific_location # None /\ Truthy(patch.specific_location[1])
    THEN patch.specific_location[1]
    ELSE scene.specific_location

\* lines 117-119
CurrentHostile(scene, patch) ==
    IF patch.hostile_environment # None
    THEN patch.hostile_environment[1]
    ELSE scene.hostile_environment

\* a slip in line 178: the names are stamped as given
NewPlan_unnormalised(combat_payload, participants, location) ==
    Plan(participants, location,
         IF "encounter_name" \in combat_payload.keys THEN combat_payload.encounter_name ELSE "")

\* lines 170-180
NewPlan(combat_payload, participants, location) ==
    Plan([i \in 1..Len(participants) |-> strip(lower(participants[i]))],
         location,
         IF "encounter_name" \in combat_payload.keys THEN combat_payload.encounter_name ELSE "")

\* a slip in line 338: every action is merged
MergePlan_always(payload, cpa) ==
    [payload EXCEPT
        !.keys = @ \cup {"scene_state_patch"},
        !.scene_state_patch =
            [(IF "scene_state_patch" \in payload.keys
              THEN payload.scene_state_patch ELSE EmptyPatch)
             EXCEPT !.has_combat_plan = TRUE, !.combat_plan = cpa.combat_plan]]

\* lines 337-342 of orchestrate_turn: fold the plan into the scene patch
MergePlan(payload, cpa) ==
    IF cpa.action \in {"update", "clear"}
    THEN [payload EXCEPT
            !.keys = @ \cup {"scene_state_patch"},
            !.scene_state_patch =
                [ScenePatchOf(payload) EXCEPT !.has_combat_plan = TRUE,
                                              !.combat_plan = cpa.combat_plan]]
    ELSE payload

\* check_and_update_combat_plan returns cpa: lines 337-351 of orchestrate_turn
Return(cpa, steps) ==
    /\ combat_plan_action' = cpa
    /\ update_payload' = MergePlan(update_payload, cpa)
    /\ result' = [returned |-> TRUE,
                  dm_response |-> dm_response,
                  update_payload |-> MergePlan(update_payload, cpa),
                  intent_used |-> intent,
                  routing_note |-> note,
                  combat_plan_action |-> cpa]
    /\ trace' = trace \o steps \o
                    (IF cpa.action \in {"update", "clear"} THEN <<"merge">> ELSE <<>>)
                    \o <<"return">>
    /\ pc' = "done"

\* a slip in lines 142-149: the designer is called without looking it up
CheckAndUpdate_unregistered ==
    /\ pc = "extracted"
    /\ IF CheckRaises(scene_state, update_payload)
       THEN /\ pc' = "raised"
            /\ error' = [type |-> "AttributeError", agent |-> "", cause |-> "combat check"]
            /\ trace' = Append(trace, "combat_check")
            /\ UNCHANGED <<retryVars, checkVars, combat_plan_action, update_payload, result>>
       ELSE LET patch == ScenePatchOf(update_payload)
                ps == CurrentParticipants(scene_state, patch)
                loc == CurrentLocation(scene_state, patch)
                hostile == CurrentHostile(scene_state, patch)
                plan == scene_state.combat_plan
                st == check_combat_plan_validity(ps, loc, hostile, plan)
            IN  /\ current_participants' = ps
                /\ current_location' = loc
                /\ current_hostile' = hostile
                /\ current_plan' = plan
                /\ status' = st
                /\ UNCHANGED error
                /\ IF st.action = "clear"
                   THEN /\ Return(PlanAction("clear", st.reason, TRUE, NoPlan),
                                  <<"combat_check">>)
                        /\ UNCHANGED retryVars
                   ELSE IF st.action = "update"
                   THEN /\ pc' = "call"
                        /\ stage' = "combat"
                        /\ attempt' = 1
                        /\ sleeps' = <<>>
                        /\ calls' = Append(calls, "combat_designer")
                        /\ retry_args' = RunnerArgs("combat_designer")
                        /\ invocations' = <<Invocation(RunnerArgs("combat_designer"))>>
                        /\ last_exception' = None
                        /\ UNCHANGED retry_outcome
                        /\ trace' = trace \o <<"combat_check", "combat_generate">>
                        /\ UNCHANGED <<combat_plan_action, update_payload, result>>
                   ELSE /\ Return(PlanAction("keep", st.reason, TRUE, plan),
                                  <<"combat_check">>)
                        /\ UNCHANGED retryVars
    /\ UNCHANGED <<engineVars, agents, scene_state, routeVars, extracted_payload, dm_response>>

\* line 331 of orchestrate_turn: lines 111-157 and 198-202 of
\* check_and_update_combat_plan, up to its return or to the designer call
CheckAndUpdate ==
    /\ pc = "extracted"
    /\ IF CheckRaises(scene_state, update_payload)
       THEN /\ pc' = "raised"
            /\ error' = [type |-> "AttributeError", agent |-> "", cause |-> "combat check"]
            /\ trace' = Append(trace, "combat_check")
            /\ UNCHANGED <<retryVars, checkVars, combat_plan_action, update_payload, result>>
       ELSE LET patch == ScenePatchOf(update_payload)
                ps == CurrentParticipants(scene_state, patch)
                loc == CurrentLocation(scene_state, patch)
                hostile == CurrentHostile(scene_state, patch)
                plan == scene_state.combat_plan
                st == check_combat_plan_validity(ps, loc, hostile, plan)
            IN  /\ current_participants' = ps
                /\ current_location' = loc
                /\ current_hostile' = hostile
                /\ current_plan' = plan
                /\ status' = st
                /\ UNCHANGED error
                /\ IF st.action = "clear"
                   THEN /\ Return(PlanAction("clear", st.reason, TRUE, NoPlan),
                                  <<"combat_check">>)
                        /\ UNCHANGED retryVars
                   ELSE IF st.action = "update" /\ "combat_designer" \notin agents
                   THEN /\ Return(PlanAction("skip",
                                             [NoReason EXCEPT !.msg =
                                                "combat_designer agent not available"],
                                             FALSE, NoPlan),
                                  <<"combat_check">>)
                        /\ UNCHANGED retryVars
                   ELSE IF st.action = "update"
                   THEN /\ pc' = "call"
                        /\ stage' = "combat"
                        /\ attempt' = 1
                        /\ sleeps' = <<>>
                        /\ calls' = Append(calls, "combat_designer")
                        /\ retry_args' = RunnerArgs("combat_designer")
                        /\ invocations' = <<Invocation(RunnerArgs("combat_designer"))>>
                        /\ last_exception' = None
                        /\ UNCHANGED retry_outcome
                        /\ trace' = trace \o <<"combat_check", "combat_generate">>
                        /\ UNCHANGED <<combat_plan_action, update_payload, result>>
                   ELSE /\ Return(PlanAction("keep", st.reason, TRUE, plan),
                                  <<"combat_check">>)
                        /\ UNCHANGED retryVars
    /\ UNCHANGED <<engineVars, agents, scene_state, routeVars, extracted_payload, dm_response>>

\* line 160 returns: lines 162-188, then 337-351 of orchestrate_turn
CombatReturns(final_output) ==
    /\ pc = "call"
    /\ stage = "combat"
    /\ Return(PlanAction("update", status.reason, TRUE,
                         <<NewPlan(PayloadOrEmpty(ResponseRaw(final_output)),
                                   current_participants, current_location)>>),
              <<>>)
    /\ stage' = "none"
    /\ UNCHANGED <<attempt, sleeps, calls, retry_args, invocations, last_exception,
                   retry_outcome, engineVars, agents, scene_state, routeVars,
                   extracted_payload, dm_response, checkVars, error>>

\* lines 190-196 left out: the designer's error leaves check_and_update_combat_plan
CombatRaises_propagates(cause) ==
    /\ pc = "call"
    /\ stage = "combat"
    /\ cause \in RaisedCauses
    /\ pc' = "raised"
    /\ error' = [type |-> "Exception", agent |-> "combat_designer", cause |-> cause]
    /\ stage' = "none"
    /\ UNCHANGED <<attempt, sleeps, calls, retry_args, invocations, last_exception,
                   retry_outcome, engineVars, agents, scene_state, routeVars,
                   extracted_payload, update_payload, dm_response, checkVars,
                   combat_plan_action, result, trace>>

\* line 160 raises: lines 190-196, then 337-351 of orchestrate_turn
CombatRaises(cause) ==
    /\ pc = "call"
    /\ stage = "combat"
    /\ cause \in RaisedCauses
    /\ Return(PlanAction("error", [NoReason EXCEPT !.msg = "Failed to update"],
                         TRUE, current_plan),
              <<>>)
    /\ stage' = "none"
    /\ UNCHANGED <<attempt, sleeps, calls, retry_args, invocations, last_exception,
                   retry_outcome, engineVars, agents, scene_state, routeVars,
                   extracted_payload, dm_response, checkVars, error>>

\* ------------------------------------------------------------------------
\* Specification of one turn of orchestrate_turn
\* ------------------------------------------------------------------------
Init ==
    LET AgentSets ==
            {AllAgents,
             AllAgents \ {"npc_dialogue", "combat_designer"},
             {"router", "narrative_short"}}
        TurnScenes ==
            {SceneDict(<<>>, <<>>, FALSE, NoPlan),
             SceneDict(<<<<"G">>>>, <<"C">>, FALSE, NoPlan),
             SceneDict(<<<<"G">>>>, <<"C">>, FALSE, <<OldPlan>>),
             SceneDict(<<>>, <<"C">>, FALSE, <<OldPlan>>),
             SceneModel(<<<<"u">>>>, <<"u">>)}
    IN  /\ Idle({"extract", "budget", "merge", "context", "play", "server", "connections", "entries"})
        /\ pc = "start"
        /\ stage = "none"
        /\ attempt = 0
        /\ sleeps = <<>>
        /\ calls = <<>>
        /\ retry_args = NoRetryArgs
        /\ invocations = <<>>
        /\ last_exception = None
        /\ retry_outcome = NoOutcome
        /\ agents \in AgentSets
        /\ scene_state \in TurnScenes
        /\ router_result = NoRouterResult
        /\ intent = ""
        /\ confidence = ""
        /\ note = ""
        /\ specialist_agent = ""
        /\ extracted_payload = EmptyDict
        /\ update_payload = EmptyDict
        /\ dm_response = <<>>
        /\ current_participants = <<>>
        /\ current_location = <<>>
        /\ current_hostile = FALSE
        /\ current_plan = NoPlan
        /\ status = NoStatus
        /\ combat_plan_action = NoPlanAction
        /\ result = NoResult
        /\ error = NoError
        /\ trace = <<>>

Next ==
    \/ StartTurn
    \/ \E exc \in TurnTransientErrors : AttemptTransient(exc)
    \/ Wake
    \/ \E out \in RouterOutputs : RouterReturns(out)
    \/ \E cause \in {"fatal", "transient"} : RouterRaises(cause)
    \/ \E out \in SpecialistOutputs : SpecialistReturns(out)
    \/ \E cause \in {"fatal", "transient"} : SpecialistRaises(cause)
    \/ CheckAndUpdate
    \/ \E out \in DesignerOutputs : CombatReturns(out)
    \/ \E cause \in {"fatal", "transient"} : CombatRaises(cause)

Spec == Init /\ [][Next]_vars

\* ------------------------------------------------------------------------
\* Specification of check_and_update_combat_plan and the merge that follows
\* it in orchestrate_turn, over the payloads a specialist can hand over
\* ------------------------------------------------------------------------

InitCombatPlan ==
    LET CheckNames == {<<"G">>, <<" ", "g">>, <<"o">>}
        CheckScenes ==
            {SceneDict(p, l, h, plan) :
                p \in SeqsUpTo(CheckNames, MaxParticipants),
                l \in {<<>>, <<"C">>},
                h \in BOOLEAN,
                plan \in {NoPlan, <<OldPlan>>, <<Plan(<<<<"g">>, <<"o">>>>, <<"D">>, "old")>>}}
            \cup {SceneModel(<<<<"u">>>>, <<"u">>)}
        PatchParticipants ==
            {None, Some(<<>>), Some(<<<<"G">>>>), Some(<<<<"o">>>>), Some(<<<<>>>>),
             Some(<<<<" ">>>>), Some(<<<<"o">>, <<"g", " ">>>>)}
        CheckPayloads ==
            {EmptyDict,
             PayloadWithPatch(NullPatch),
             PayloadWithPatch(PatchDict(None, None, None, TRUE, <<SpecialistPlan>>)),
             PayloadWithPatch(PatchDict(Some(<<>>), None, Some(FALSE), TRUE, <<SpecialistPlan>>)),
             PayloadWithPatch(PatchDict(Some(<<<<"o">>>>), Some(<<"D">>), None, TRUE, NoPlan))}
            \cup {PayloadWithPatch(PatchDict(pp, pl, ph, FALSE, NoPlan)) :
                    pp \in PatchParticipants,
                    pl \in {None, Some(<<>>), Some(<<"c">>), Some(<<"D">>)},
                    ph \in {None, Some(TRUE), Some(FALSE)}}
    IN  /\ Idle({"extract", "budget", "merge", "context", "play", "server", "connections", "entries"})
        /\ pc = "extracted"
        /\ stage = "none"
        /\ attempt = 1
        /\ sleeps = <<>>
        /\ calls = <<"router", "narrative_short">>
        /\ retry_args = RunnerArgs("narrative_short")
        /\ invocations = <<Invocation(RunnerArgs("narrative_short"))>>
        /\ last_exception = None
        /\ retry_outcome = NoOutcome
        /\ agents \in {AllAgents, AllAgents \ {"npc_dialogue", "combat_designer"}}
        /\ scene_state \in CheckScenes
        /\ router_result = RouterOutput("object", "narrative_short", <<>>)
        /\ intent = "narrative_short"
        /\ confidence = "medium"
        /\ note = "router"
        /\ specialist_agent = "narrative_short"
        /\ update_payload \in CheckPayloads
        /\ extracted_payload = update_payload
        /\ dm_response = Prose
        /\ current_participants = <<>>
        /\ current_location = <<>>
        /\ current_hostile = FALSE
        /\ current_plan = NoPlan
        /\ status = NoStatus
        /\ combat_plan_action = NoPlanAction
        /\ result = NoResult
        /\ error = NoError
        /\ trace = <<"classify", "dispatch", "generate", "extract">>

\* game_engine.py lines 814-816, after orchestrate_turn returned: the scene
\* given to the check is merged with the returned scene_state_patch. Only a
\* scene that is a dict gets here (line 118 raised for a SceneState), and a
\* dict has no model_dump: line 929 raises AttributeError
ApplyPatch ==
    /\ pc = "done"
    /\ result.returned
    /\ merge_call.kind = "none"
    /\ scene_state.kind = "dict"
    /\ LET scene_patch == ScenePatchOf(result.update_payload)
           given == scene_patch.participants # None
                        \/ scene_patch.specific_location # None
                        \/ scene_patch.hostile_environment # None
                        \/ scene_patch.has_combat_plan
       IN  merge_call' = [merge_call EXCEPT !.kind = IF given THEN "raised" ELSE "skipped"]
    /\ UNCHANGED <<pc, retryVars, turnVars, extractVars, budgetVars, engine_scene, merges,
                   contextVars, playVars, serviceVars>>

NextCombatPlan ==
    \/ CheckAndUpdate
    \/ ApplyPatch
    \/ \E exc \in TurnTransientErrors : AttemptTransient(exc)
    \/ Wake
    \/ \E out \in DesignerOutputs : CombatReturns(out)
    \/ \E cause \in {"fatal", "transient"} : CombatRaises(cause)

SpecCombatPlan == InitCombatPlan /\ [][NextCombatPlan]_vars

\* ------------------------------------------------------------------------
\* Specification of check_combat_plan_validity over its arguments
\* ------------------------------------------------------------------------
InitValidity ==
    LET \* "Goblin", " goblin", "orc" and the empty name
        NamePool == {<<"G">>, <<" ", "g">>, <<"o">>, <<>>}
        \* "", "Cave", "cave", "Dock"
        LocationPool == {<<>>, <<"C">>, <<"c">>, <<"D">>}
        ParticipantLists == SeqsUpTo(NamePool, MaxParticipants)
        PlanPool ==
            {NoPlan} \cup
            {<<Plan(n, l, "old")>> : n \in SeqsUpTo(NamePool, MaxPlanNpcs), l \in LocationPool}
    IN  /\ Idle({"extract", "budget", "merge", "context", "play", "server", "connections", "entries"})
        /\ pc = "validity_call"
        /\ stage = "none"
        /\ attempt = 0
        /\ sleeps = <<>>
        /\ calls = <<>>
        /\ retry_args = NoRetryArgs
        /\ invocations = <<>>
        /\ last_exception = None
        /\ retry_outcome = NoOutcome
        /\ agents = AllAgents
        /\ scene_state = SceneDict(<<>>, <<>>, FALSE, NoPlan)
        /\ router_result = NoRouterResult
        /\ intent = ""
        /\ confidence = ""
        /\ note = ""
        /\ specialist_agent = ""
        /\ extracted_payload = EmptyDict
        /\ update_payload = EmptyDict
        /\ dm_response = <<>>
        /\ current_participants \in ParticipantLists
        /\ current_location \in LocationPool
        /\ current_hostile \in BOOLEAN
        /\ current_plan \in PlanPool
        /\ status = NoStatus
        /\ combat_plan_action = NoPlanAction
        /\ result = NoResult
        /\ error = NoError
        /\ trace = <<>>

\* one call of check_combat_plan_validity
Evaluate ==
    /\ pc = "validity_call"
    /\ status' = check_combat_plan_validity(current_participants, current_location,
                                            current_hostile, current_plan)
    /\ pc' = "validity_return"
    /\ UNCHANGED <<retryVars, engineVars, agents, scene_state, routeVars, extracted_payload,
                   update_payload, dm_response, current_participants, current_location,
                   current_hostile, current_plan, combat_plan_action, result, error, trace>>

NextValidity == Evaluate

SpecValidity == InitValidity /\ [][NextValidity]_vars

\* ------------------------------------------------------------------------
\* Specification of check_combat_plan_validity over plans prepared for up to
\* MaxProvenance distinct names, of which any subset is still present
\* ------------------------------------------------------------------------

\* the names numbered by S, in ascending order
RECURSIVE NamesOf(_)
NamesOf(S) ==
    LET ProvenanceLetters == <<"a", "b", "e", "h", "k", "m">>
        ProvenanceName(i) == <<ProvenanceLetters[i]>>
    IN  IF S = {} THEN <<>>
        ELSE LET m == SetMin(S) IN <<ProvenanceName(m)>> \o NamesOf(S \ {m})

InitDeparture ==
    /\ Idle({"extract", "budget", "merge", "context", "play", "server", "connections", "entries"})
    /\ pc = "validity_call"
    /\ stage = "none"
    /\ attempt = 0
    /\ sleeps = <<>>
    /\ calls = <<>>
    /\ retry_args = NoRetryArgs
    /\ invocations = <<>>
    /\ last_exception = None
    /\ retry_outcome = NoOutcome
    /\ agents = AllAgents
    /\ scene_state = SceneDict(<<>>, <<>>, FALSE, NoPlan)
    /\ router_result = NoRouterResult
    /\ intent = ""
    /\ confidence = ""
    /\ note = ""
    /\ specialist_agent = ""
    /\ extracted_payload = EmptyDict
    /\ update_payload = EmptyDict
    /\ dm_response = <<>>
    /\ \E n \in 1..MaxProvenance, present \in SUBSET (1..MaxProvenance) :
            /\ present \subseteq 1..n
            /\ current_plan = <<Plan(NamesOf(1..n), <<"C">>, "old")>>
            /\ current_participants = NamesOf(present)
    /\ current_location \in {<<"c">>, <<"D">>}
    /\ current_hostile \in BOOLEAN
    /\ status = NoStatus
    /\ combat_plan_action = NoPlanAction
    /\ result = NoResult
    /\ error = NoError
    /\ trace = <<>>

SpecDeparture == InitDeparture /\ [][NextValidity]_vars

\* ------------------------------------------------------------------------
\* Specification of the retry wrapper on its own: run_with_retry, or a
\* function decorated with retry_on_transient, around a function that
\* returns or raises as it likes at every invocation. The function is one
\* that has a __name__ (a def, or Runner.run); what the decorator does with
\* a callable that has none is part of the specification of the two entry
\* points further down
\* ------------------------------------------------------------------------
\* class and status_code of the exceptions the wrapped function raises
ExceptionKinds ==
    {<<"RateLimitError", 429>>, <<"APITimeoutError", 0>>, <<"APIConnectionError", 0>>,
     <<"InternalServerError", 500>>, <<"APIStatusError", 502>>, <<"APIStatusError", 503>>,
     <<"APIStatusError", 504>>, <<"APIStatusError", 500>>, <<"APIStatusError", 400>>,
     <<"APIStatusError", 404>>, <<"AuthenticationError", 401>>, <<"ValueError", 0>>,
     <<"Exception", 0>>, <<"CancelledError", 0>>}

RaisedExceptions == {Exc(k[1], k[2], 0) : k \in ExceptionKinds}

ReturnValues == {"success", "None"}

InitRetry ==
    LET RetryCalls ==
            {RetryArgs(w, m, b, d, a[1], a[2]) :
                w \in {"run_with_retry", "retry_on_transient"},
                m \in 0..MaxAttempts,
                b \in {1, 2},
                d \in {3, 8},
                a \in {<<<<>>, {}>>, <<<<"x", "y">>, {"c"}>>}}
    IN  /\ Idle({"extract", "budget", "merge", "context", "play", "server", "connections", "entries"})
        /\ pc = "retry_start"
        /\ stage = "func"
        /\ attempt = 0
        /\ sleeps = <<>>
        /\ calls = <<>>
        /\ retry_args \in RetryCalls
        /\ invocations = <<>>
        /\ last_exception = None
        /\ retry_outcome = NoOutcome
        /\ agents = AllAgents
        /\ scene_state = SceneDict(<<>>, <<>>, FALSE, NoPlan)
        /\ router_result = NoRouterResult
        /\ intent = ""
        /\ confidence = ""
        /\ note = ""
        /\ specialist_agent = ""
        /\ extracted_payload = EmptyDict
        /\ update_payload = EmptyDict
        /\ dm_response = <<>>
        /\ current_participants = <<>>
        /\ current_location = <<>>
        /\ current_hostile = FALSE
        /\ current_plan = NoPlan
        /\ status = NoStatus
        /\ combat_plan_action = NoPlanAction
        /\ result = NoResult
        /\ error = NoError
        /\ trace = <<>>

\* lines 101-106: the loop starts and the first attempt invokes the function;
\* with no iteration at all (max_attempts < 1) lines 129-130 are reached with
\* last_exception None: the assert fails, or, with asserts compiled out,
\* raise None raises TypeError
RetryCall ==
    /\ pc = "retry_start"
    /\ IF retry_args.max_attempts >= 1
       THEN /\ pc' = "call"
            /\ attempt' = 1
            /\ invocations' = <<Invocation(retry_args)>>
            /\ UNCHANGED retry_outcome
       ELSE /\ pc' = "retry_raised"
            /\ \E class \in {"AssertionError", "TypeError"} :
                    retry_outcome' = Outcome("raised", "", Some(Exc(class, 0, 0)))
            /\ UNCHANGED <<attempt, invocations>>
    /\ UNCHANGED <<stage, sleeps, calls, retry_args, last_exception, engineVars, turnVars>>

\* line 106: the function returns and the wrapper returns its result
FuncReturns(value) ==
    /\ pc = "call"
    /\ stage = "func"
    /\ pc' = "retry_returned"
    /\ retry_outcome' = Outcome("returned", [value |-> value, attempt |-> attempt], None)
    /\ UNCHANGED <<stage, attempt, sleeps, calls, retry_args, invocations, last_exception,
                   engineVars, turnVars>>

\* a slip in lines 114-119: on exhaustion a new error replaces the last one
FuncRaises_replaces_last(exc) ==
    /\ pc = "call"
    /\ stage = "func"
    /\ LET caught == isinstance(exc, {"Exception"})
           raised == [exc EXCEPT !.raised_at = attempt]
       IN  /\ RetryDecision(caught, is_transient_error(exc), attempt,
                            retry_args.max_attempts) \in {"raise", "propagate"}
           /\ last_exception' = IF caught THEN Some(raised) ELSE last_exception
           /\ retry_outcome' =
                IF caught /\ is_transient_error(exc)
                THEN Outcome("raised", "", Some(Exc("RuntimeError", 0, 0)))
                ELSE Outcome("raised", "", Some(raised))
    /\ pc' = "retry_raised"
    /\ UNCHANGED <<stage, attempt, sleeps, calls, retry_args, invocations, engineVars, turnVars>>

\* lines 107-119: the function raises; a fatal error, or a transient one at
\* the last attempt, is re-raised by the bare raise; an exception that is no
\* Exception passes through the except clause
FuncRaises(exc) ==
    /\ pc = "call"
    /\ stage = "func"
    /\ LET caught == isinstance(exc, {"Exception"})
           raised == [exc EXCEPT !.raised_at = attempt]
       IN  /\ RetryDecision(caught, is_transient_error(exc), attempt,
                            retry_args.max_attempts) \in {"raise", "propagate"}
           /\ last_exception' = IF caught THEN Some(raised) ELSE last_exception
           /\ retry_outcome' = Outcome("raised", "", Some(raised))
    /\ pc' = "retry_raised"
    /\ UNCHANGED <<stage, attempt, sleeps, calls, retry_args, invocations, engineVars, turnVars>>

NextRetry ==
    \/ RetryCall
    \/ \E exc \in RaisedExceptions : AttemptTransient(exc)
    \/ Wake
    \/ \E value \in ReturnValues : FuncReturns(value)
    \/ \E exc \in RaisedExceptions : FuncRaises(exc)

SpecRetry == InitRetry /\ [][NextRetry]_vars

\* ------------------------------------------------------------------------
\* orchestration/turn_router.py lines 325-328: the extraction on its own
\* ------------------------------------------------------------------------
MaxPieces == 3

\* the specialist's result carries the text in final_output, or the text
\* is only found in str(result)
InitExtract ==
    LET \* what a specialist's text is made of: prose, whitespace, well-formed
        \* blocks, a block whose object is never closed (as in
        \* test_extract_update_payload_malformed_json), a block holding no object, a
        \* block whose object does not parse, an opening fence alone and an object
        \* followed by a closing fence
        TextPieces ==
            {<<"x">>, <<" ">>,
             <<"B", "j", " ", "{", "sum", "}", " ", "B">>,
             <<"B", "j", "{", "pG", "}", "B">>,
             <<"B", "j", " ", "{", "x", " ", "B">>,
             <<"B", "j", " ", "x", " ", "B">>,
             <<"B", "j", "{", "x", "}", "B">>,
             <<"B", "j">>,
             <<"{", "pD", "}", "B">>}
        RECURSIVE Concat(_)
        Concat(pieces) == IF pieces = <<>> THEN <<>> ELSE Head(pieces) \o Concat(Tail(pieces))
        ExtractTexts == {Concat(ps) : ps \in SeqsUpTo(TextPieces, MaxPieces)}
    IN  /\ pc = "extract_call"
        /\ Idle({"turn", "budget", "merge", "context", "play", "server", "connections", "entries"})
        /\ \E t \in ExtractTexts :
              specialist_response_raw \in {t, StrOfRunResult(t)}
        /\ specialist_response_clean = <<>>
        /\ returned_payload = None

\* lines 326-328
Extract ==
    /\ pc = "extract_call"
    /\ LET clean == extract_narrative_from_runresult(specialist_response_raw)
       IN  /\ specialist_response_clean' = clean
           /\ returned_payload' = extract_update_payload(clean)
           /\ update_payload' = PayloadOrEmpty(clean)
           /\ dm_response' = strip_json_block(clean)
    /\ pc' = "extract_return"
    /\ UNCHANGED <<retryVars, agents, scene_state, routeVars, extracted_payload, checkVars,
                   combat_plan_action, result, error, trace, specialist_response_raw,
                   budgetVars, mergeVars, contextVars, playVars, serviceVars>>

SpecExtract == InitExtract /\ [][Extract]_vars

\* ------------------------------------------------------------------------
\* library/token_budget.py: the calls
\* ------------------------------------------------------------------------
MaxTextLen == 3
MaxLimit == 3

InitBudget ==
    LET BudgetTexts == SeqsUpTo({"a", "b", "E"}, MaxTextLen)
        \* the consumer types: two with a budget of their own and one unknown
        BudgetTypes == {"router", "gameplay", "unknown_agent_type"}
        \* TOKEN_BUDGET_<TYPE> as the tests set it (a number, not a number) and as
        \* a deployment can: unset, empty, zero, negative
        EnvValues ==
            {EnvValue("unset", 0), EnvValue("empty", 0), EnvValue("text", 0)}
                \cup {EnvValue("int", n) : n \in -1..MaxLimit}
    IN  /\ pc = "budget_call"
        /\ Idle({"turn", "extract", "merge", "context", "play", "server", "connections", "entries"})
        /\ agent_type \in BudgetTypes
        /\ env_value \in EnvValues
        /\ context \in BudgetTexts
        /\ max_tokens \in 0..MaxLimit
        /\ preserve_end \in BOOLEAN
        /\ budget_call = "none"
        /\ returned_text = <<>>
        /\ metadata = Metadata("", 0, 0, Percent(0, 1), 0, None, None)

\* a call of trim_to_budget(context, max_tokens, preserve_end=...)
TrimToBudget ==
    /\ pc = "budget_call"
    /\ budget_call' = "trim_to_budget"
    /\ returned_text' = trim_to_budget(context, max_tokens, preserve_end)
    /\ pc' = "budget_return"
    /\ UNCHANGED <<retryVars, turnVars, extractVars, agent_type, env_value, context,
                   max_tokens, preserve_end, metadata, mergeVars, contextVars, playVars, serviceVars>>

\* a call of enforce_budget(agent_type, context)
EnforceBudget ==
    /\ pc = "budget_call"
    /\ budget_call' = "enforce_budget"
    /\ returned_text' = enforce_budget(agent_type, context, env_value).text
    /\ metadata' = enforce_budget(agent_type, context, env_value).metadata
    /\ pc' = "budget_return"
    /\ UNCHANGED <<retryVars, turnVars, extractVars, agent_type, env_value, context,
                   max_tokens, preserve_end, mergeVars, contextVars, playVars, serviceVars>>

NextBudget == TrimToBudget \/ EnforceBudget

SpecBudget == InitBudget /\ [][NextBudget]_vars

\* ------------------------------------------------------------------------
\* game_engine.py: merge_scene_patch, the calls
\* ------------------------------------------------------------------------
InitMerge ==
    /\ pc = "merge_call"
    /\ Idle({"turn", "extract", "budget", "context", "play", "server", "connections", "entries"})
    /\ engine_scene = PlaceholderScene
    /\ merge_call = MergeCall("none", PlaceholderScene, PlaceholderScene, <<>>, FALSE)
    /\ merges = 0

\* scene_state = merge_scene_patch(scene_state, patch): model_dump copies
\* the base, and the constructor returns a new object
Merge ==
    LET \* the keys a scene_state_patch carries: the fields of SceneState and the
        \* two keys check_and_update_combat_plan reads and writes
        PatchKeys == SceneFields \cup {"hostile_environment", "combat_plan"}
        PatchValues(k) ==
            {JValue("null", <<>>, <<>>)} \cup
                IF k \in StrFields THEN {JStr(<<"d">>), JValue("int", <<>>, <<>>)}
                ELSE IF k \in ListFields THEN {JList(<<>>), JValue("items", <<>>, <<>>)}
                ELSE IF k = "hostile_environment" THEN {JValue("bool", <<>>, <<>>)}
                ELSE {JValue("dict", <<>>, <<>>)}
        Patches ==
            UNION {{p \in [K -> UNION {PatchValues(k) : k \in K}] :
                        \A k \in K : p[k] \in PatchValues(k)} :
                    K \in {S \in SUBSET PatchKeys : Cardinality(S) <= MaxPatchKeys}}
    IN  \E p \in Patches :
        /\ pc = "merge_call"
        /\ merges < MaxMerges
        /\ merges' = merges + 1
        /\ IF merge_scene_patch(engine_scene, p).raised
           THEN /\ merge_call' = MergeCall("raised", engine_scene, engine_scene, p, FALSE)
                /\ UNCHANGED engine_scene
           ELSE /\ merge_call' = MergeCall("returned", engine_scene, engine_scene, p, TRUE)
                /\ engine_scene' = merge_scene_patch(engine_scene, p).scene
        /\ UNCHANGED <<pc, retryVars, turnVars, extractVars, budgetVars, contextVars, playVars, serviceVars>>

SpecMerge == InitMerge /\ [][Merge]_vars

\* ------------------------------------------------------------------------
\* orchestration/turn_router.py: build_agent_context, the calls
\* ------------------------------------------------------------------------

InitContext ==
    LET ContextTypes == AllAgents \cup {"unknown_agent_xyz"}
        RecapTexts == {<<>>, <<"a">>, <<"a", "b", "E">>}
        SessionContexts ==
            {SessionContext(plan, sc, recap, dm) :
                plan \in {None, Some(<<"P">>)},
                sc \in {None, Some(<<"S">>)},
                recap \in {None} \cup {Some(r) : r \in RecapTexts},
                dm \in {None, Some(<<"u">>)}}
        UserInputs == {<<>>, <<"u">>, <<"u", "v">>}
        \* the budgets a context of this size stays within, and one it exceeds
        ContextEnvValues == {EnvValue("unset", 0), EnvValue("int", MaxLimit)}
    IN  /\ pc = "context_call"
        /\ Idle({"turn", "extract", "merge", "play", "server", "connections", "entries"})
        /\ agent_type \in ContextTypes
        /\ env_value \in ContextEnvValues
        /\ session_context \in SessionContexts
        /\ user_input \in UserInputs
        /\ enforce_flag \in BOOLEAN
        /\ context = <<>>
        /\ max_tokens = 0
        /\ preserve_end = TRUE
        /\ budget_call = "none"
        /\ returned_text = <<>>
        /\ metadata = Metadata("", 0, 0, Percent(0, 1), 0, None, None)

\* a call of build_agent_context(agent_type, session_context, user_input,
\* enforce_budget=enforce_flag)
BuildAgentContext ==
    /\ pc = "context_call"
    /\ context' = ContextFor(agent_type, session_context, user_input)
    /\ returned_text' = build_agent_context(agent_type, session_context, user_input,
                                            enforce_flag, env_value)
    /\ IF enforce_flag
       THEN /\ budget_call' = "enforce_budget"
            /\ metadata' = enforce_budget(agent_type,
                                ContextFor(agent_type, session_context, user_input),
                                env_value).metadata
       ELSE UNCHANGED <<budget_call, metadata>>
    /\ pc' = "context_return"
    /\ UNCHANGED <<retryVars, turnVars, extractVars, mergeVars, agent_type, env_value,
                   max_tokens, preserve_end, contextVars, playVars, serviceVars>>

SpecContext == InitContext /\ [][BuildAgentContext]_vars

\* ------------------------------------------------------------------------
\* game_engine.py: play_turn, the calls
\* ------------------------------------------------------------------------

InitPlay ==
    LET InitialPatches ==
            {<<>>, [k \in {"specific_location"} |-> JStr(<<"C">>)]}
    IN  /\ pc = "play_call"
        /\ Idle({"turn", "extract", "budget", "merge", "context", "server", "connections", "entries"})
        /\ \E st \in {"open", "complete"}, initial \in InitialPatches :
              session = Session(st, 0, "Session just started", initial, <<>>)
        /\ turn_call = TurnCall("none", "", FALSE, 0, PlaceholderScene, <<>>, 0)

\* play_turn(campaign_id, session_id, user_input) on the one session
PlayTurn ==
    LET \* lines 824-833
        TurnRecord(turn_number, input, response, scene, turn_summary, intent_used) ==
            [turn_number |-> turn_number, user_input |-> input, dm_response |-> response,
             scene_state |-> scene, turn_summary |-> turn_summary, intent_used |-> intent_used]
        \* lines 727-736: "Player: ... DM: ..." of every turn of the history (the
        \* limits of lines 40-42 are beyond the turns played here)
        RecapOf(chat_history) ==
            [i \in 1..Len(chat_history) |->
                <<chat_history[i].user_input, chat_history[i].dm_response>>]
        \* lines 709-724: the scene play_turn starts from
        StartScene(s) ==
            IF s.turn_count = 0
            THEN merge_scene_patch(PlaceholderScene, s.initial_scene_state_patch)
            ELSE MergeResult(FALSE, PlaceholderScene)
        \* the call ends with an exception: nothing is written
        TurnRaises(error_text, multi, scene_read) ==
            /\ turn_call' = TurnCall("raised", error_text, multi, session.turn_count, scene_read,
                                     RecapOf(session.chat_history), turn_call.calls + 1)
            /\ UNCHANGED session
        PlayInputs == {<<"u">>, <<"v">>}
        \* what the DM agent replies: prose, a summary, scene patches (participants,
        \* location and hostility, a combat plan, null), or an error
        PlayReplies ==
            {[raised |-> FALSE, text |-> t] :
                t \in {Prose, Fenced("sum"), Fenced("pG"), Fenced("pD"), Fenced("pplan"),
                       Fenced("pnull")}}
                \cup {[raised |-> TRUE, text |-> <<>>]}
        \* the scene_state_patch of a payload as the dict merge_scene_patch is given
        AsScenePatch(pd) ==
            LET keys == (IF pd.participants # None THEN {"participants"} ELSE {})
                            \cup (IF pd.specific_location # None THEN {"specific_location"} ELSE {})
                            \cup (IF pd.hostile_environment # None
                                  THEN {"hostile_environment"} ELSE {})
                            \cup (IF pd.has_combat_plan THEN {"combat_plan"} ELSE {})
            IN  [k \in keys |->
                    CASE k = "participants" -> JList(pd.participants[1])
                      [] k = "specific_location" -> JStr(pd.specific_location[1])
                      [] k = "hostile_environment" -> JValue("bool", <<>>, <<>>)
                      [] OTHER -> IF pd.combat_plan = NoPlan
                                  THEN JValue("null", <<>>, <<>>)
                                  ELSE JValue("dict", <<>>, <<>>)]
    IN  \E input \in PlayInputs, multi \in BOOLEAN, reply \in PlayReplies :
        /\ pc = "play_call"
        /\ turn_call.calls < MaxTurns + 1
        /\ session.turn_count < MaxTurns
        /\ IF session.status # "open"
           THEN TurnRaises("ValueError", multi, PlaceholderScene)
           ELSE IF StartScene(session).raised
           THEN TurnRaises("ValidationError", multi, PlaceholderScene)
           ELSE IF multi
           THEN \* lines 753-789: orchestrate_turn is given the SceneState object and
                \* raises at turn_router.py:118, or earlier
                TurnRaises("Error from multi-agent orchestrator", multi,
                           StartScene(session).scene)
           ELSE IF reply.raised
           THEN TurnRaises("Error getting DM response", multi, StartScene(session).scene)
           ELSE LET clean == extract_narrative_from_runresult(StrOfRunResult(reply.text))
                    payload_dict == PayloadOrEmpty(clean)
                    response == strip_json_block(clean)
                    scene_patch == IF ScenePatchOf(payload_dict).kind = "null"
                                   THEN <<>>
                                   ELSE AsScenePatch(ScenePatchOf(payload_dict))
                    merged == IF DOMAIN scene_patch # {}
                              THEN merge_scene_patch(StartScene(session).scene, scene_patch)
                              ELSE MergeResult(FALSE, StartScene(session).scene)
                    turn_summary == IF "turn_summary" \in payload_dict.keys
                                    THEN payload_dict.turn_summary ELSE ""
                IN  IF merged.raised
                    THEN TurnRaises("ValidationError", multi, StartScene(session).scene)
                    ELSE /\ session' =
                                [session EXCEPT
                                    !.turn_count = @ + 1,
                                    !.chat_history =
                                        Append(@, TurnRecord(TurnNumber(session), input, response,
                                                             merged.scene, turn_summary,
                                                             "narrative_long")),
                                    !.summary = IF turn_summary # "" THEN turn_summary ELSE @]
                         /\ turn_call' =
                                TurnCall("returned", "", multi, session.turn_count,
                                         StartScene(session).scene,
                                         RecapOf(session.chat_history), turn_call.calls + 1)
        /\ UNCHANGED <<pc, retryVars, turnVars, extractVars, budgetVars, mergeVars,
                       contextVars, serviceVars>>

SpecPlay == InitPlay /\ [][PlayTurn]_vars

\* ------------------------------------------------------------------------
\* run_server.py lines 189-282 and game_engine.py lines 656-863: the calls of
\* play_turn and close_session the server runs side by side on one session.
\* play_turn_endpoint and websocket_endpoint await play_turn, and
\* close_session_endpoint awaits close_session, on one event loop and with
\* no lock: a call runs until it awaits a remote agent, and the other calls
\* run meanwhile. A call is a record: where it stands (pc), the session dict
\* it loaded and holds while it runs, how it ended (outcome), what it has written (written), and how
\* many calls its caller has made (calls) and seen return (returned)
\* The memory store holds one upload for every call that uploaded
\* ------------------------------------------------------------------------
MaxCalls == 2

\* the callers of play_turn: the requests of the REST endpoint and the
\* message loop of a WebSocket
TurnCallers == {"rest", "websocket"}

InitServer ==
    /\ pc = "serve"
    /\ Idle({"turn", "extract", "budget", "merge", "context", "connections", "entries"})
    /\ session = Session("open", 0, "Session just started", <<>>, <<>>)
    /\ turn_call = TurnCall("none", "", FALSE, 0, PlaceholderScene, <<>>, 0)
    /\ tasks = [t \in TurnCallers \cup {"close"} |->
                    [pc |-> "idle", session |-> Session("none", 0, "", <<>>, <<>>),
                     outcome |-> "none", written |-> {}, calls |-> 0, returned |-> 0]]
    /\ memory = {}
    /\ session_files = <<>>
    /\ clock = 0

\* game_engine.py lines 687-693 and on to the first await of an agent: the
\* session file is read, and a session that is not open is refused
LoadSession(t) ==
    /\ pc = "serve"
    /\ tasks[t].pc = "idle"
    /\ tasks[t].calls < MaxCalls
    /\ tasks' = [tasks EXCEPT
                    ![t].pc = IF session.status = "open" THEN "agent" ELSE "idle",
                    ![t].session = IF session.status = "open" THEN session ELSE @,
                    ![t].outcome = IF session.status = "open" THEN "none" ELSE "ValueError",
                    ![t].written = {},
                    ![t].calls = @ + 1]
    /\ UNCHANGED <<pc, retryVars, turnVars, extractVars, budgetVars, mergeVars, contextVars,
                   playVars, memory, session_files, clock, connectionVars, entryVars>>

\* lines 751-812: the awaited agent call raises, or the call is cancelled
\* while it waits (for the agent, or in a backoff sleep)
AgentRaises(t) ==
    /\ pc = "serve"
    /\ tasks[t].pc = "agent"
    /\ \E raised \in {"Error getting DM response", "CancelledError"} :
            tasks' = [tasks EXCEPT ![t].pc = "idle", ![t].outcome = raised,
                                   ![t].session = Session("none", 0, "", <<>>, <<>>)]
    /\ UNCHANGED <<pc, retryVars, turnVars, extractVars, budgetVars, mergeVars, contextVars,
                   playVars, memory, session_files, clock, connectionVars, entryVars>>

\* lines 812-861, which hold no await: the agent has replied; the memory
\* writes of the reply are uploaded (lines 819-821; vectorstores.py lines
\* 138-139), the record is appended to the dict loaded in line 687 and the
\* dict is written over the session file (lines 824-846). The upload can
\* fail (a remote call, not retried), and so can a write to the disk
\* after it (vectorstores.py line 143, game_engine.py line 846)
AgentReplies(t) ==
    /\ pc = "serve"
    /\ tasks[t].pc = "agent"
    /\ \E memory_writes \in BOOLEAN, failure \in {"none", "upload", "write"} :
        LET loaded == tasks[t].session
            turn_record == [turn_number |-> TurnNumber(loaded), user_input |-> <<t>>]
            uploaded == memory_writes /\ failure # "upload"
            saved == failure = "none"
        IN  /\ failure = "upload" => memory_writes
            /\ memory' = IF uploaded
                          THEN memory \cup {[by |-> t, call |-> tasks[t].calls]}
                          ELSE memory
            /\ session' = IF saved
                          THEN [loaded EXCEPT !.turn_count = @ + 1,
                                              !.chat_history = Append(@, turn_record)]
                          ELSE session
            /\ tasks' = [tasks EXCEPT
                            ![t].pc = "idle",
                            ![t].session = Session("none", 0, "", <<>>, <<>>),
                            ![t].outcome = CASE failure = "upload" -> "APIConnectionError"
                                             [] failure = "write" -> "OSError"
                                             [] OTHER -> "returned",
                            ![t].written = (IF uploaded THEN {"memory"} ELSE {})
                                               \cup (IF saved THEN {"session"} ELSE {}),
                            ![t].returned = IF saved THEN @ + 1 ELSE @]
    /\ UNCHANGED <<pc, retryVars, turnVars, extractVars, budgetVars, mergeVars, contextVars,
                   turn_call, session_files, clock, connectionVars, entryVars>>

\* lines 658-663: close_session reads the session file and awaits the
\* post-session analysis
CloseLoad ==
    /\ pc = "serve"
    /\ tasks["close"].pc = "idle"
    /\ tasks["close"].calls < 1
    /\ tasks' = [tasks EXCEPT !["close"].pc = "analysis", !["close"].session = session,
                              !["close"].calls = @ + 1]
    /\ UNCHANGED <<pc, retryVars, turnVars, extractVars, budgetVars, mergeVars, contextVars,
                   playVars, memory, session_files, clock, connectionVars, entryVars>>

\* lines 665-681: the analysis is there (generate_post_session_analysis
\* turns its errors into a text); the dict loaded in line 658 is marked
\* complete and written over the session file
CloseSave ==
    /\ pc = "serve"
    /\ tasks["close"].pc = "analysis"
    /\ session' = [tasks["close"].session EXCEPT !.status = "complete"]
    /\ tasks' = [tasks EXCEPT !["close"].pc = "idle", !["close"].outcome = "returned",
                              !["close"].session = Session("none", 0, "", <<>>, <<>>),
                              !["close"].written = {"session"}, !["close"].returned = @ + 1]
    /\ UNCHANGED <<pc, retryVars, turnVars, extractVars, budgetVars, mergeVars, contextVars,
                   turn_call, memory, session_files, clock, connectionVars, entryVars>>

NextServer ==
    \/ \E t \in TurnCallers : LoadSession(t) \/ AgentRaises(t) \/ AgentReplies(t)
    \/ CloseLoad
    \/ CloseSave

SpecServer == InitServer /\ [][NextServer]_vars

\* ------------------------------------------------------------------------
\* game_engine.py lines 438-538, 575-581 and 656-681: the calls of
\* create_session and close_session the server runs side by side on one
\* campaign (run_server.py lines 168-197, no lock). Of a session file the
\* status is kept: "none" (no file), "open" or "complete". A session_id is
\* the second in which its create_session passed line 452
\* ------------------------------------------------------------------------
MaxClock == 3

InitSessions ==
    /\ pc = "sessions"
    /\ Idle({"turn", "extract", "budget", "merge", "context", "play", "connections",
             "entries"})
    /\ tasks = [t \in {"first", "second"} |->
                    [pc |-> "idle", session_id |-> 0, outcome |-> "none", calls |-> 0]]
    /\ memory = <<>>
    /\ session_files = [id \in 1..MaxClock |-> "none"]
    /\ clock = 1

\* time.time() passes a second
Tick ==
    /\ pc = "sessions"
    /\ clock < MaxClock
    /\ clock' = clock + 1
    /\ UNCHANGED <<pc, retryVars, turnVars, extractVars, budgetVars, mergeVars, contextVars,
                   playVars, tasks, memory, session_files, connectionVars, entryVars>>

\* lines 443-452 and on to the await of the planning agent: the call is
\* refused when get_active_session finds a file whose status is open, and
\* takes the clock as its session_id otherwise
CreateSession(t) ==
    /\ pc = "sessions"
    /\ tasks[t].pc = "idle"
    /\ tasks[t].calls < MaxCalls
    /\ LET active == \E id \in DOMAIN session_files : session_files[id] = "open"
       IN  tasks' = [tasks EXCEPT
                        ![t].pc = IF active THEN "idle" ELSE "planning",
                        ![t].session_id = IF active THEN 0 ELSE clock,
                        ![t].outcome = IF active THEN "ValueError" ELSE "none",
                        ![t].calls = @ + 1]
    /\ UNCHANGED <<pc, retryVars, turnVars, extractVars, budgetVars, mergeVars, contextVars,
                   playVars, memory, session_files, clock, connectionVars, entryVars>>

\* lines 467-538: the planning agent has answered; a plan that validates is
\* written, with status open, to the file of the session_id (lines 512-529),
\* and one that does not makes the call raise (lines 493-508)
SessionPlanned(t) ==
    /\ pc = "sessions"
    /\ tasks[t].pc = "planning"
    /\ \E valid \in BOOLEAN :
        /\ session_files' = IF valid
                            THEN [session_files EXCEPT ![tasks[t].session_id] = "open"]
                            ELSE session_files
        /\ tasks' = [tasks EXCEPT ![t].pc = "idle",
                                  ![t].outcome = IF valid THEN "returned" ELSE "Exception"]
    /\ UNCHANGED <<pc, retryVars, turnVars, extractVars, budgetVars, mergeVars, contextVars,
                   playVars, memory, clock, connectionVars, entryVars>>

\* lines 656-681: close_session of a session that has a file ends with the
\* status complete in the file; what it awaits between its load and its
\* save changes nothing here, because no call removes a file or writes a
\* status other than open at creation
CloseSession(id) ==
    /\ pc = "sessions"
    /\ session_files[id] # "none"
    /\ session_files' = [session_files EXCEPT ![id] = "complete"]
    /\ UNCHANGED <<pc, retryVars, turnVars, extractVars, budgetVars, mergeVars, contextVars,
                   playVars, tasks, memory, clock, connectionVars, entryVars>>

NextSessions ==
    \/ Tick
    \/ \E t \in {"first", "second"} : CreateSession(t) \/ SessionPlanned(t)
    \/ \E id \in 1..MaxClock : CloseSession(id)

SpecSessions == InitSessions /\ [][NextSessions]_vars

\* ------------------------------------------------------------------------
\* run_server.py lines 64-85 and 229-282: the ConnectionManager and the
\* handlers of the WebSockets. A socket is "new" (not yet accepted), "open",
\* "closed" (the client is gone, the handler has not noticed yet) or "done"
\* (the handler has ended); its session_key is fixed when it connects
\* ------------------------------------------------------------------------
MaxSockets == 2

InitConnections ==
    /\ pc = "connections"
    /\ Idle({"turn", "extract", "budget", "merge", "context", "play", "server", "entries"})
    /\ active_connections = <<>>
    /\ sockets = [w \in 1..MaxSockets |-> [state |-> "new", session_key |-> ""]]
    /\ delivered = [from |-> 0, to |-> 0]

\* lines 229-235 and 68-70: the handler builds the session_key, accepts the
\* socket and stores it under the key, over any socket stored there
Connect(w, session_key) ==
    /\ pc = "connections"
    /\ sockets[w].state = "new"
    /\ sockets' = [sockets EXCEPT ![w] = [state |-> "open", session_key |-> session_key]]
    /\ active_connections' =
            [k \in DOMAIN active_connections \cup {session_key} |->
                IF k = session_key THEN w ELSE active_connections[k]]
    /\ UNCHANGED <<pc, retryVars, turnVars, extractVars, budgetVars, mergeVars, contextVars,
                   playVars, serverVars, delivered, entryVars>>

\* the client of an open socket goes away
ClientCloses(w) ==
    /\ pc = "connections"
    /\ sockets[w].state = "open"
    /\ sockets' = [sockets EXCEPT ![w].state = "closed"]
    /\ UNCHANGED <<pc, retryVars, turnVars, extractVars, budgetVars, mergeVars, contextVars,
                   playVars, serverVars, active_connections, delivered, entryVars>>

\* lines 239, 281-282 and 72-74: receive_json of the handler of a closed
\* socket raises WebSocketDisconnect, and the handler calls
\* manager.disconnect(session_key), which deletes the entry of the key
Disconnect(w) ==
    /\ pc = "connections"
    /\ sockets[w].state = "closed"
    /\ sockets' = [sockets EXCEPT ![w].state = "done"]
    /\ active_connections' =
            [k \in DOMAIN active_connections \ {sockets[w].session_key} |->
                active_connections[k]]
    /\ UNCHANGED <<pc, retryVars, turnVars, extractVars, budgetVars, mergeVars, contextVars,
                   playVars, serverVars, delivered, entryVars>>

\* lines 246-279 and 76-85: the handler of socket w, which has received a
\* message, calls manager.send_personal_message(message, session_key): the
\* message goes to the socket stored under the key; when send_json raises
\* (the socket is closed) the entry of the key is deleted, and when no
\* socket is stored the message is dropped (to = 0)
SendPersonalMessage(w) ==
    /\ pc = "connections"
    /\ sockets[w].state \in {"open", "closed"}
    /\ LET session_key == sockets[w].session_key
           stored == session_key \in DOMAIN active_connections
           websocket == active_connections[session_key]
       IN  IF stored /\ sockets[websocket].state = "open"
           THEN /\ delivered' = [from |-> w, to |-> websocket]
                /\ UNCHANGED active_connections
           ELSE IF stored
           THEN /\ active_connections' =
                        [k \in DOMAIN active_connections \ {session_key} |->
                            active_connections[k]]
                /\ delivered' = [from |-> w, to |-> 0]
           ELSE /\ delivered' = [from |-> w, to |-> 0]
                /\ UNCHANGED active_connections
    /\ UNCHANGED <<pc, retryVars, turnVars, extractVars, budgetVars, mergeVars, contextVars,
                   playVars, serverVars, sockets, entryVars>>

NextConnections ==
    \E w \in 1..MaxSockets :
        \/ \E session_key \in {"c_1", "c_2"} : Connect(w, session_key)
        \/ ClientCloses(w)
        \/ Disconnect(w)
        \/ SendPersonalMessage(w)

SpecConnections == InitConnections /\ [][NextConnections]_vars

\* ------------------------------------------------------------------------
\* library/retry.py lines 35-83 and 86-130: the two retry entry points, a
\* function decorated with retry_on_transient and run_with_retry, given the
\* same function and the same parameters. The function (wrapped) is what
\* its invocations do, one after the other, and whether the callable has a
\* __name__ (a def has one; a functools.partial, a callable object or a mock
\* has none); optimized says whether asserts are compiled out
\* ------------------------------------------------------------------------
MaxInvocations == 3

InitEntryPoints ==
    LET Behaviours == [1..MaxInvocations -> {"returns", "transient", "fatal"}]
    IN  /\ pc = "entries"
        /\ Idle({"turn", "extract", "budget", "merge", "context", "play", "server",
                 "connections"})
        /\ \E behaviour \in Behaviours, named \in BOOLEAN, optimized \in BOOLEAN,
              max_attempts \in 0..MaxInvocations, base_delay \in {1, 2}, max_delay \in {3, 8} :
                wrapped = [behaviour |-> behaviour, named |-> named, optimized |-> optimized,
                           max_attempts |-> max_attempts, base_delay |-> base_delay,
                           max_delay |-> max_delay]
        /\ entry_runs = [e \in {"retry_on_transient", "run_with_retry"} |->
                            [pc |-> "start", attempt |-> 0, invocations |-> <<>>,
                             sleeps |-> <<>>, outcome |-> NoOutcome]]

\* lines 49-53 and 101-106: the loop starts and the first attempt invokes
\* the function; with no iteration (max_attempts < 1) lines 80-81 and 129-130
\* are reached with last_exception None: the assert fails or, with asserts
\* compiled out, raise None raises TypeError
EntryCall(e) ==
    /\ pc = "entries"
    /\ entry_runs[e].pc = "start"
    /\ entry_runs' =
            IF wrapped.max_attempts >= 1
            THEN [entry_runs EXCEPT ![e].pc = "call", ![e].attempt = 1,
                                    ![e].invocations = <<1>>]
            ELSE [entry_runs EXCEPT
                    ![e].pc = "raised",
                    ![e].outcome =
                        Outcome("raised", "",
                                Some(Exc(IF wrapped.optimized THEN "TypeError"
                                         ELSE "AssertionError", 0, 0)))]
    /\ UNCHANGED <<pc, retryVars, turnVars, extractVars, budgetVars, mergeVars, contextVars,
                   playVars, serverVars, connectionVars, wrapped>>

\* lines 52-77 and 105-127: the invocation returns, or raises and the except
\* clause decides. Every branch of the clause logs the name of the function
\* first: the decorator reads func.__name__ (lines 57-60, 63-67, 70-75), which
\* raises AttributeError on a callable that has none; run_with_retry reads
\* the func_name of line 103, getattr(coro_func, '__name__', str(coro_func))
EntryAttempt(e) ==
    /\ pc = "entries"
    /\ entry_runs[e].pc = "call"
    /\ LET attempt_no == entry_runs[e].attempt
           does == wrapped.behaviour[attempt_no]
           exc == IF does = "transient"
                  THEN Exc("RateLimitError", 429, attempt_no)
                  ELSE Exc("ValueError", 0, attempt_no)
           decision == RetryDecision(isinstance(exc, {"Exception"}), is_transient_error(exc),
                                     attempt_no, wrapped.max_attempts)
           name_raises == e = "retry_on_transient" /\ ~wrapped.named
       IN  entry_runs' =
                IF does = "returns"
                THEN [entry_runs EXCEPT
                        ![e].pc = "returned",
                        ![e].outcome = Outcome("returned", [value |-> "success",
                                                            attempt |-> attempt_no], None)]
                ELSE IF name_raises
                THEN [entry_runs EXCEPT
                        ![e].pc = "raised",
                        ![e].outcome = Outcome("raised", "",
                                               Some(Exc("AttributeError", 0, attempt_no)))]
                ELSE IF decision = "sleep"
                THEN [entry_runs EXCEPT
                        ![e].pc = "sleep",
                        ![e].sleeps = Append(@, BackoffDelay(attempt_no, wrapped.base_delay,
                                                             wrapped.max_delay))]
                ELSE [entry_runs EXCEPT
                        ![e].pc = "raised",
                        ![e].outcome = Outcome("raised", "", Some(exc))]
    /\ UNCHANGED <<pc, retryVars, turnVars, extractVars, budgetVars, mergeVars, contextVars,
                   playVars, serverVars, connectionVars, wrapped>>

\* lines 77, 51-53 and 127, 104-106: asyncio.sleep returns and the next
\* attempt invokes the function
EntryWake(e) ==
    /\ pc = "entries"
    /\ entry_runs[e].pc = "sleep"
    /\ entry_runs' = [entry_runs EXCEPT ![e].pc = "call", ![e].attempt = @ + 1,
                                        ![e].invocations = Append(@, entry_runs[e].attempt + 1)]
    /\ UNCHANGED <<pc, retryVars, turnVars, extractVars, budgetVars, mergeVars, contextVars,
                   playVars, serverVars, connectionVars, wrapped>>

NextEntryPoints ==
    \E e \in {"retry_on_transient", "run_with_retry"} :
        EntryCall(e) \/ EntryAttempt(e) \/ EntryWake(e)

SpecEntryPoints == InitEntryPoints /\ [][NextEntryPoints]_vars

\* ------------------------------------------------------------------------
\* Properties of orchestrate_turn
\* ------------------------------------------------------------------------
\* the classifier call raised, or its output is malformed or has no intent
ClassifierFailed ==
    router_result.kind \in {"raised", "nointent", "prose", "malformed", "number", "zero"}

\* the classifier produced a label, and how
ClassifierLabelled == router_result.kind \in {"object", "bare", "fenced"}

\* C1: whenever the classifier call fails with an exception, or its output
\* is malformed or has no intent field, the turn goes on with
\* intent=narrative_short and confidence=low, the narrative_short responder
\* is run, a returned result has intent_used=narrative_short, and the
\* classifier's failure is not raised to the caller.
C1_ClassifierFailureFallsBack ==
    ClassifierFailed =>
        /\ ~(pc = "raised" /\ error.type = "TypeError")
        /\ intent = "narrative_short"
        /\ confidence = "low"
        /\ specialist_agent = "narrative_short"
        /\ Len(calls) >= 2
        /\ calls[2] = "narrative_short"
        /\ (result.returned => result.intent_used = "narrative_short")

\* an error of the specialist, wherever it shows, is the end of the turn
C2_SpecialistError ==
    error.type = "Exception" =>
        /\ pc = "raised"
        /\ stage = "specialist"
        /\ error.agent = specialist_agent
        /\ error.agent = intent
        /\ calls = <<"router", specialist_agent>>
        /\ status = NoStatus
        /\ "combat_check" \notin ToSet(trace)
        /\ combat_plan_action = NoPlanAction
        /\ ~result.returned

\* every exit of the specialist call by an error raises the wrapped error
C2_SpecialistOutcome ==
    /\ [](C2_SpecialistError)
    /\ [][(pc = "call" /\ stage = "specialist" /\ pc' \notin {"sleep", "extracted"})
            => (pc' = "raised" /\ error'.type = "Exception" /\ error'.agent = intent
                /\ calls' = calls /\ ~result'.returned)]_vars

\* a failure of the classifier (its call or its output) is never what ends
\* the turn with an error
C2_ClassifierNeverRaises ==
    (ClassifierFailed /\ pc = "raised") => error.type # "TypeError"

\* C2: when the selected specialist still fails after the retry wrapper
\* gives up, the turn ends with a raised error that names the specialist; no
\* other responder is tried, no combat check runs and no result is returned.
\* This outcome is distinguishable from a classifier failure, which never
\* raises.
C2_SpecialistFailureIsFatal ==
    /\ C2_SpecialistOutcome
    /\ [](C2_ClassifierNeverRaises)

\* C3: for every resolved intent label outside the closed set, or without a
\* registered responder, the narrative_short responder is run, intent_used
\* is narrative_short and the dispatch raises nothing; in every returned
\* result intent_used is in the closed set and names the responder that ran.
C3_UnknownIntentFallsBack ==
    /\ (ClassifierLabelled /\ (router_result.intent \notin IntentLabels
                               \/ router_result.intent \notin agents))
        => /\ error.type # "KeyError"
           /\ specialist_agent = "narrative_short"
           /\ intent = "narrative_short"
           /\ Len(calls) >= 2
           /\ calls[2] = "narrative_short"
           /\ (result.returned => result.intent_used = "narrative_short")
    /\ result.returned
        => /\ result.intent_used \in IntentLabels
           /\ result.intent_used \in agents
           /\ result.intent_used = calls[2]

C3_Witness ==
    /\ result.returned
    /\ router_result.kind = "object"
    /\ router_result.intent = "npc_dialogue"
    /\ "npc_dialogue" \notin agents
    /\ result.intent_used = "narrative_short"

\* C4: when the classifier returns a label of the closed set whose responder
\* is registered (as a structured object, as bare JSON text or as a fenced
\* JSON block), that responder handles the turn, intent_used is the label,
\* and when no combat-plan update is needed the turn makes exactly two
\* logical remote calls: the classifier, then the specialist.
C4_RegisteredIntentIsRouted ==
    (ClassifierLabelled /\ router_result.intent \in IntentLabels
                        /\ router_result.intent \in agents)
        => /\ specialist_agent = router_result.intent
           /\ intent = router_result.intent
           /\ Len(calls) >= 2
           /\ calls[1] = "router"
           /\ calls[2] = router_result.intent
           /\ result.returned =>
                /\ result.intent_used = router_result.intent
                /\ (status.action # "update" => calls = <<"router", router_result.intent>>)

C4_Witness ==
    /\ result.returned
    /\ router_result.kind = "fenced"
    /\ Len(finditer(router_result.text, 1)) = 2
    /\ result.intent_used = "qa_rules"
    /\ calls = <<"router", "qa_rules">>

\* C5: when the readiness check signals update and the combat-plan responder
\* fails after retries, the turn still returns its result with the
\* specialist's narrative and payload, nothing is raised, and the previous
\* plan is retained: the returned scene patch carries no replacement for
\* combat_plan.
C5_DesignerFailed ==
    combat_plan_action.action = "error" =>
        /\ pc = "done"
        /\ error = NoError
        /\ status.action = "update"
        /\ result.returned
        /\ result.dm_response = dm_response
        /\ result.update_payload = extracted_payload
        /\ result.combat_plan_action.combat_plan = scene_state.combat_plan

C5_CombatFailureIsNotFatal ==
    /\ [](C5_DesignerFailed)
    /\ [][(pc = "call" /\ stage = "combat" /\ pc' # "sleep")
            => (pc' = "done" /\ result'.returned /\ error' = NoError)]_vars

C5_Witness ==
    /\ combat_plan_action.action = "error"
    /\ result.returned
    /\ scene_state.combat_plan # NoPlan
    /\ "scene_state_patch" \in result.update_payload.keys
    /\ attempt = DEFAULT_MAX_ATTEMPTS

\* position of the first occurrence of a step in the trace (0 when absent)
IndexOf(step) ==
    IF step \in ToSet(trace)
    THEN CHOOSE i \in 1..Len(trace) : trace[i] = step /\ \A j \in 1..(i - 1) : trace[j] # step
    ELSE 0

Count(step) == Cardinality({i \in 1..Len(trace) : trace[i] = step})

\* C6: in every execution that returns a result, the readiness evaluation
\* (and any plan generation it triggers) happens after the specialist's
\* response has been extracted and before the result is returned; it is run
\* on the payload extracted in this turn and it is never skipped.
C6_CombatCheckOrdering ==
    result.returned =>
        /\ Count("extract") = 1
        /\ Count("combat_check") = 1
        /\ Count("return") = 1
        /\ IndexOf("generate") < IndexOf("extract")
        /\ IndexOf("extract") < IndexOf("combat_check")
        /\ IndexOf("combat_check") < IndexOf("return")
        /\ IndexOf("return") = Len(trace)
        /\ ("combat_generate" \in ToSet(trace)
                => /\ IndexOf("combat_check") < IndexOf("combat_generate")
                   /\ IndexOf("combat_generate") < IndexOf("return"))
        /\ status # NoStatus
        /\ result.combat_plan_action.action \in {"keep", "clear", "update", "skip", "error"}
        /\ status = check_combat_plan_validity(
                        CurrentParticipants(scene_state, ScenePatchOf(extracted_payload)),
                        CurrentLocation(scene_state, ScenePatchOf(extracted_payload)),
                        CurrentHostile(scene_state, ScenePatchOf(extracted_payload)),
                        scene_state.combat_plan)

C6_Witness ==
    /\ result.returned
    /\ "combat_generate" \in ToSet(trace)
    /\ result.combat_plan_action.action = "update"
    /\ extracted_payload.scene_state_patch.participants # None

\* ------------------------------------------------------------------------
\* Properties of check_and_update_combat_plan
\* ------------------------------------------------------------------------
\* the readiness check of this turn has been evaluated
Checked == status # NoStatus

\* C7: the participants, location and hostile flag given to the readiness
\* check are the stored scene's values, each overridden by the field of this
\* turn's scene patch whenever the patch carries it with a non-null value,
\* an empty participant list and hostile_environment=false included.
C7_PatchOverridesScene ==
    Checked =>
        LET patch == ScenePatchOf(extracted_payload)
        IN  /\ current_participants =
                    IF patch.participants # None THEN patch.participants[1]
                    ELSE scene_state.participants
            /\ current_location =
                    IF patch.specific_location # None THEN patch.specific_location[1]
                    ELSE scene_state.specific_location
            /\ current_hostile =
                    IF patch.hostile_environment # None THEN patch.hostile_environment[1]
                    ELSE scene_state.hostile_environment

\* C8: when the check signals update and the combat-plan responder succeeds,
\* the new plan's prepared_for_npcs is the lowercased, trimmed set of the
\* participants evaluated in this turn and prepared_for_location is the
\* location evaluated in this turn; nothing of the replaced plan's
\* provenance is carried over.
C8_FreshProvenance ==
    combat_plan_action.action = "update" =>
        LET new_plan == combat_plan_action.combat_plan[1]
        IN  /\ status.action = "update"
            /\ ToSet(new_plan.prepared_for_npcs) =
                    {strip(lower(p)) : p \in ToSet(current_participants)}
            /\ get_npc_set(new_plan.prepared_for_npcs) = get_npc_set(current_participants) \ {<<>>}
            /\ \A n \in ToSet(new_plan.prepared_for_npcs) : n = lower(n) /\ n = strip(n)
            /\ new_plan.prepared_for_location = current_location
            /\ result.returned
            /\ result.update_payload.scene_state_patch.combat_plan = <<new_plan>>

C8_Witness ==
    /\ combat_plan_action.action = "update"
    /\ current_participants = <<<<" ", "g">>, <<"G">>>>
    /\ current_plan = <<Plan(<<<<"g">>, <<"o">>>>, <<"D">>, "old")>>
    /\ current_location = <<"c">>
    /\ combat_plan_action.combat_plan[1].encounter_name = "new"

\* C9: the orchestrator writes the combat_plan key of the returned scene
\* patch exactly when the action taken is update (the new plan) or clear
\* (null); for keep, skip and error the specialist's payload is returned as
\* extracted, and a scene_state_patch is created only for update and clear.
C9_PlanKeyWritten ==
    result.returned =>
        LET cpa == result.combat_plan_action
            before == extracted_payload
            after == result.update_payload
        IN  IF cpa.action \in {"update", "clear"}
            THEN /\ after.keys = before.keys \cup {"scene_state_patch"}
                 /\ after.scene_state_patch.kind = "dict"
                 /\ after.scene_state_patch.has_combat_plan
                 /\ after.scene_state_patch.combat_plan = cpa.combat_plan
                 /\ (cpa.action = "clear" <=> cpa.combat_plan = NoPlan)
                 /\ \A f \in {"participants", "specific_location", "hostile_environment"} :
                        after.scene_state_patch[f] = ScenePatchOf(before)[f]
                 /\ \A f \in {"intent", "confidence", "turn_summary", "encounter_name"} :
                        after[f] = before[f]
            ELSE /\ cpa.action \in {"keep", "skip", "error"}
                 /\ after = before

C9_Witness ==
    /\ result.returned
    /\ result.combat_plan_action.action = "clear"
    /\ "scene_state_patch" \notin extracted_payload.keys
    /\ "scene_state_patch" \in result.update_payload.keys

\* ------------------------------------------------------------------------
\* Properties of check_combat_plan_validity
\* ------------------------------------------------------------------------
\* C10: for every location and every plan, when the participant list is
\* empty and the environment is not hostile, the action is clear if a plan
\* exists and keep if none exists, whatever the plan records.
C10_NoThreat ==
    (pc = "validity_return" /\ current_participants = <<>> /\ ~current_hostile)
        => status.action = IF current_plan # NoPlan THEN "clear" ELSE "keep"

C10_Witness ==
    /\ pc = "validity_return"
    /\ current_participants = <<>>
    /\ ~current_hostile
    /\ current_plan = <<Plan(<<>>, <<>>, "old")>>
    /\ current_location = <<"D">>
    /\ status.action = "clear"

\* check_combat_plan_validity has returned for a scene with a threat
ThreatEvaluated ==
    /\ pc = "validity_return"
    /\ (current_participants # <<>> \/ current_hostile)

\* C11: whenever no plan exists and the participant list is non-empty or the
\* environment is hostile, the action is update, for every location; the
\* reason names the NPCs (the first three) when participants are present and
\* names the hostile environment when the flag is set.
C11_NoPlanWithThreat ==
    (ThreatEvaluated /\ current_plan = NoPlan) =>
        /\ status.action = "update"
        /\ status.reason.msg = "No combat plan exists but"
        /\ (current_participants # <<>> =>
                /\ status.reason.shown # <<>>
                /\ status.reason.shown = Prefix(current_participants, 3))
        /\ (current_hostile => status.reason.hostile)

C11_Witness ==
    /\ ThreatEvaluated
    /\ current_plan = NoPlan
    /\ current_participants = <<>>
    /\ current_hostile
    /\ current_location = <<"D">>
    /\ status.action = "update"
    /\ status.reason.hostile

\* the plan's normalized prepared_for_npcs set
ProvenanceSet == get_npc_set(current_plan[1].prepared_for_npcs)

\* every current participant name, lowercased and trimmed
NormalizedNames == {strip(lower(p)) : p \in ToSet(current_participants)}

\* the non-empty current participant names, lowercased and trimmed
NormalizedNonEmptyNames ==
    {strip(lower(p)) : p \in {q \in ToSet(current_participants) : q # <<>>}}

\* C12: with an existing plan and a threat present, if any current
\* participant name, lowercased and trimmed, is not in the plan's normalized
\* prepared_for_npcs set, the action is update whatever the location and the
\* provenance names that remain; names that differ only in letter case or
\* surrounding whitespace are the same name, so they never count as new.
C12_NewNameForcesUpdate ==
    (ThreatEvaluated /\ current_plan # NoPlan) =>
        /\ (NormalizedNames \ ProvenanceSet # {} => status.action = "update")
        /\ (NormalizedNames \ ProvenanceSet = {}
                => status.reason.msg # "New NPCs entered the scene")

\* C12 as amended: the same, for the participant names that are not the
\* empty string.
C12_NewNonEmptyNameForcesUpdate ==
    (ThreatEvaluated /\ current_plan # NoPlan) =>
        /\ (NormalizedNonEmptyNames \ ProvenanceSet # {}
                => /\ status.action = "update"
                   /\ status.reason.msg = "New NPCs entered the scene"
                   /\ status.reason.among = NormalizedNonEmptyNames \ ProvenanceSet)
        /\ (NormalizedNonEmptyNames \ ProvenanceSet = {}
                => status.reason.msg # "New NPCs entered the scene")

C12_Witness ==
    /\ ThreatEvaluated
    /\ current_participants = <<<<" ", "g">>, <<"o">>>>
    /\ current_plan = <<Plan(<<<<"G">>>>, <<"C">>, "old")>>
    /\ current_location = <<"c">>
    /\ status.action = "update"
    /\ status.reason.among = {<<"o">>}

\* the departure rule is reached: a plan exists, a threat is present and no
\* current name is new
DepartureRuleReached ==
    /\ ThreatEvaluated
    /\ current_plan # NoPlan
    /\ get_npc_set(current_participants) \ ProvenanceSet = {}

\* the provenance names that are no longer present
AbsentNames == ProvenanceSet \ get_npc_set(current_participants)

\* C13: with an existing plan and no new participant, for every provenance
\* set size n >= 1 and every number k of provenance names now absent, the
\* departure rule yields update exactly when 2k > n; at exactly half or
\* fewer it forces no update, and the plan is kept when the location is the
\* same.
C13_DepartureThreshold ==
    (DepartureRuleReached /\ Cardinality(ProvenanceSet) >= 1) =>
        LET n == Cardinality(ProvenanceSet)
            k == Cardinality(AbsentNames)
        IN  /\ (status.reason.msg = "Significant NPCs left the scene" <=> 2 * k > n)
            /\ (2 * k > n => status.action = "update")
            /\ ((2 * k <= n
                 /\ lower(current_plan[1].prepared_for_location) = lower(current_location))
                    => status.action = "keep")

C13_Witness ==
    /\ DepartureRuleReached
    /\ Cardinality(ProvenanceSet) = 4
    /\ Cardinality(AbsentNames) = 2
    /\ current_location = <<"c">>
    /\ status.action = "keep"

\* the location rule is reached: no new name and no significant departure
LocationRuleReached ==
    /\ DepartureRuleReached
    /\ 2 * Cardinality(AbsentNames) <= Cardinality(ProvenanceSet)

\* C14: with an existing plan, no new participant and no significant
\* departure, the action is update whenever the plan's recorded location
\* differs from the current location, letter case aside, for every pair of
\* recorded and current values, and keep otherwise.
C14_LocationDiffers ==
    LocationRuleReached =>
        status.action =
            IF lower(current_plan[1].prepared_for_location) # lower(current_location)
            THEN "update" ELSE "keep"

\* C14 as amended: update exactly when both locations are non-empty and
\* differ, letter case aside; keep otherwise, also when either is empty.
C14_KnownLocationDiffers ==
    LocationRuleReached =>
        status.action =
            IF /\ current_plan[1].prepared_for_location # <<>>
               /\ current_location # <<>>
               /\ lower(current_plan[1].prepared_for_location) # lower(current_location)
            THEN "update" ELSE "keep"

C14_Witness ==
    /\ LocationRuleReached
    /\ current_participants = <<<<"G">>>>
    /\ current_plan = <<Plan(<<<<" ", "g">>>>, <<"c">>, "old")>>
    /\ current_location = <<"D">>
    /\ status.action = "update"
    /\ status.reason.msg = "Location changed"

\* ------------------------------------------------------------------------
\* Properties of the retry wrapper
\* ------------------------------------------------------------------------
\* the wrapper is called on its own and has returned or raised
RetryEnded == stage = "func" /\ pc \in {"retry_returned", "retry_raised"}

\* the delay the backoff rule names for the sleep after attempt k
ExpectedDelay(k) ==
    LET doubled == retry_args.base_delay * (2 ^ (k - 1))
    IN  IF doubled < retry_args.max_delay THEN doubled ELSE retry_args.max_delay

\* the wrapper was given these three parameters
CalledWith(max_attempts, base_delay, max_delay) ==
    /\ retry_args.max_attempts = max_attempts
    /\ retry_args.base_delay = base_delay
    /\ retry_args.max_delay = max_delay

\* every attempt failed with a caught error and the last attempt was reached
Exhausted ==
    /\ RetryEnded
    /\ pc = "retry_raised"
    /\ attempt = retry_args.max_attempts
    /\ last_exception # None
    /\ last_exception[1].raised_at = attempt
    /\ Len(sleeps) = attempt - 1

WorthRetrying(exc) ==
    \/ exc.class \in {"RateLimitError", "APITimeoutError", "APIConnectionError",
                      "InternalServerError"}
    \/ /\ exc.class \in {"APIStatusError", "RateLimitError", "InternalServerError",
                         "AuthenticationError"}
       /\ exc.status_code \in {502, 503, 504}

C19_BoundedAndFaithful ==
    RetryEnded =>
        /\ Len(invocations) <= retry_args.max_attempts
        /\ Len(sleeps) <= retry_args.max_attempts - 1
        /\ retry_outcome.kind \in {"returned", "raised"}
        /\ (retry_outcome.kind = "returned"
                => /\ retry_outcome.value.value \in ReturnValues
                   /\ retry_outcome.value.attempt = Len(invocations))
        /\ (retry_outcome.kind = "raised"
                => /\ retry_outcome.exc # None
                   /\ retry_outcome.exc[1].raised_at = Len(invocations)
                   /\ <<retry_outcome.exc[1].class, retry_outcome.exc[1].status_code>>
                        \in ExceptionKinds)

\* the exceptions the wrapper has seen the function raise
SeenExceptions ==
    (IF last_exception # None THEN {last_exception[1]} ELSE {})
    \cup (IF retry_outcome.exc # None THEN {retry_outcome.exc[1]} ELSE {})

\* C20: an exception is transient exactly when it is a rate-limit, timeout,
\* connection or internal-server error, or a status error with code 502, 503
\* or 504; authentication errors, 400 and 404 status errors and every
\* unclassified exception are fatal.
C20_TransientClassification ==
    (stage = "func" /\ retry_args.max_attempts >= 1) =>
        /\ \A exc \in SeenExceptions :
                /\ is_transient_error(exc) <=> WorthRetrying(exc)
                /\ (exc.class \in {"AuthenticationError", "ValueError", "Exception",
                                   "CancelledError"}
                        => ~is_transient_error(exc))
                /\ (exc.class = "APIStatusError" /\ exc.status_code \in {400, 404}
                        => ~is_transient_error(exc))
        /\ (pc = "sleep" => WorthRetrying(last_exception[1]))
        /\ ((pc = "retry_raised" /\ attempt < retry_args.max_attempts)
                => ~WorthRetrying(retry_outcome.exc[1]))

C20_Witness ==
    /\ stage = "func"
    /\ pc = "sleep"
    /\ last_exception = Some(Exc("APIStatusError", 504, 1))
    /\ is_transient_error(last_exception[1])

\* ------------------------------------------------------------------------
\* Properties of the extraction
\* ------------------------------------------------------------------------
Extracted == pc = "extract_return"

\* the contents of the fenced JSON blocks of a text, read from left to
\* right: an opening fence (three backticks and the word json), the text up
\* to the next fence, and that fence
RECURSIVE FencedBlocks(_, _)
FencedBlocks(t, i) ==
    LET opens == {s \in i..(Len(t) - 1) :
                    /\ t[s] = "B"
                    /\ t[s + 1] = "j"
                    /\ \E k \in (s + 2)..Len(t) : t[k] = "B"}
    IN  IF opens = {} THEN <<>>
        ELSE LET s == SetMin(opens)
                 k == SetMin({c \in (s + 2)..Len(t) : t[c] = "B"})
             IN  <<SubSeq(t, s + 2, k - 1)>> \o FencedBlocks(t, k + 1)

\* the object a block's content parses to, None when it does not parse
ParseOf(content) ==
    IF json_loads(content).ok /\ json_loads(content).kind = "dict"
    THEN Some(json_loads(content).val) ELSE None

LastBlock(t) == FencedBlocks(t, 1)[Len(FencedBlocks(t, 1))]

\* C21: for every text with at least one fenced JSON block, the payload
\* extract_update_payload returns is the parse of the last block
C21_LastBlockWins ==
    (Extracted /\ FencedBlocks(specialist_response_clean, 1) # <<>>)
        => returned_payload = ParseOf(LastBlock(specialist_response_clean))

\* C21, where it holds: when every fenced JSON block of the text parses,
\* the payload is the parse of the last one
C21_LastOfWellFormedBlocks ==
    (/\ Extracted
     /\ FencedBlocks(specialist_response_clean, 1) # <<>>
     /\ \A i \in 1..Len(FencedBlocks(specialist_response_clean, 1)) :
           ParseOf(FencedBlocks(specialist_response_clean, 1)[i]) # None)
        => returned_payload = ParseOf(LastBlock(specialist_response_clean))

\* C22: the narrative returned holds no fenced JSON block, and extracting
\* again from the narrative gives the same narrative and no payload
C22_ExtractionIsIdempotent ==
    Extracted =>
        /\ FencedBlocks(dm_response, 1) = <<>>
        /\ strip_json_block(dm_response) = dm_response
        /\ extract_update_payload(dm_response) = None

\* C22, where it holds: when every fenced JSON block of the text parses
C22_IdempotentOnWellFormedBlocks ==
    (/\ Extracted
     /\ \A i \in 1..Len(FencedBlocks(specialist_response_clean, 1)) :
           ParseOf(FencedBlocks(specialist_response_clean, 1)[i]) # None)
        => /\ FencedBlocks(dm_response, 1) = <<>>
           /\ strip_json_block(dm_response) = dm_response
           /\ extract_update_payload(dm_response) = None

\* the text has no fenced JSON block, or its last one does not parse
NothingToExtract ==
    \/ FencedBlocks(specialist_response_clean, 1) = <<>>
    \/ ParseOf(LastBlock(specialist_response_clean)) = None

\* C23: when the specialist's text has no fenced JSON block, or its last
\* one does not parse, no error is raised, the payload is empty and the
\* narrative is the text unchanged
C23_GracefulDegradation ==
    (Extracted /\ NothingToExtract)
        => /\ error = NoError
           /\ update_payload = EmptyDict
           /\ dm_response = specialist_response_clean

\* C23, where it holds: a text with no fenced JSON block gives no error, an
\* empty payload and the text without its trailing whitespace
C23_NoBlockNoPayload ==
    (Extracted /\ FencedBlocks(specialist_response_clean, 1) = <<>>)
        => /\ error = NoError
           /\ update_payload = EmptyDict
           /\ dm_response = rstrip(specialist_response_clean)

\* C23, the payload alone: when the last block does not parse, the payload
\* is empty (violated: an earlier block's payload is returned)
C23_UnparseableLastBlockGivesNoPayload ==
    (Extracted /\ NothingToExtract) => update_payload = EmptyDict

\* ------------------------------------------------------------------------
\* Properties of TokenBudget
\* ------------------------------------------------------------------------
BudgetReturned == pc = "budget_return"

BudgetEnforced == BudgetReturned /\ budget_call = "enforce_budget"

\* C24: enforcing the budget of a consumer type on a text that enforce_budget
\* returned for that type returns the text as it is
C24_EnforceIsIdempotent ==
    BudgetEnforced
        => enforce_budget(agent_type, returned_text, env_value).text = returned_text

\* C24, where it holds: with a budget that is not negative
C24_IdempotentFromZero ==
    (BudgetEnforced /\ get_budget(agent_type, env_value) >= 0)
        => enforce_budget(agent_type, returned_text, env_value).text = returned_text

\* the limit and the end kept by the call that returned
Limit ==
    IF budget_call = "enforce_budget" THEN get_budget(agent_type, env_value)
    ELSE max_tokens

KeepsEnd == budget_call = "enforce_budget" \/ preserve_end

\* the last n and the first n of a sequence of tokens, 0 <= n <= Len(tokens)
LastTokens(tokens, n) == SubSeq(tokens, Len(tokens) - n + 1, Len(tokens))
FirstTokens(tokens, n) == SubSeq(tokens, 1, n)

\* what the claim says of a call with the limit n
WithinLimit(n) ==
    /\ count_tokens(returned_text) <= n
    /\ count_tokens(context) <= n
          => /\ returned_text = context
             /\ budget_call = "enforce_budget" => metadata.was_trimmed = Some(FALSE)
    /\ count_tokens(context) > n
          => /\ returned_text =
                    IF KeepsEnd THEN decode(LastTokens(encode(context), n))
                    ELSE decode(FirstTokens(encode(context), n))
             /\ budget_call = "enforce_budget"
                    => /\ metadata.was_trimmed = Some(TRUE)
                       /\ metadata.original_token_count = Some(count_tokens(context))

\* C25: for every text and every limit from 0 up, the text returned has at
\* most that many tokens, a text within the limit is returned as it is with
\* was_trimmed false, and a text over the limit keeps its last (or first)
\* tokens up to the limit, with was_trimmed true and the original count
C25_TrimmedToLimit ==
    (BudgetReturned /\ Limit >= 0) => WithinLimit(Limit)

\* C25, where it holds: for every limit from 1 up
C25_TrimmedToPositiveLimit ==
    (BudgetReturned /\ Limit >= 1) => WithinLimit(Limit)

\* ------------------------------------------------------------------------
\* Properties of merge_scene_patch
\* ------------------------------------------------------------------------
Merged == merge_call.kind # "none"

\* the keys of the last patch that hold a value other than null
SetKeys == {k \in DOMAIN merge_call.patch : merge_call.patch[k] # JValue("null", <<>>, <<>>)}

\* C26: the result takes the patch's value for each key the patch holds with
\* a non-null value and the base's value for every other key, it is a new
\* SceneState, and the base is left as it was
C26_PatchMerged ==
    Merged
        => /\ merge_call.kind = "returned"
           /\ \A k \in SetKeys :
                 k \in DOMAIN engine_scene /\ engine_scene[k] = merge_call.patch[k]
           /\ \A k \in DOMAIN merge_call.base_before \ SetKeys :
                 k \in DOMAIN engine_scene /\ engine_scene[k] = merge_call.base_before[k]
           /\ merge_call.returned_new
           /\ merge_call.base_after = merge_call.base_before

\* C26, where it holds: when every key the patch sets is a field of
\* SceneState and its value has the field's type
C26_FieldsMerged ==
    (/\ Merged
     /\ SetKeys \subseteq SceneFields
     /\ \A k \in SetKeys \cap StrFields : merge_call.patch[k].type = "str"
     /\ \A k \in SetKeys \cap ListFields : merge_call.patch[k].type = "list")
        => /\ merge_call.kind = "returned"
           /\ \A k \in SetKeys : engine_scene[k] = merge_call.patch[k]
           /\ \A k \in SceneFields \ SetKeys :
                 engine_scene[k] = merge_call.base_before[k]
           /\ merge_call.returned_new
           /\ merge_call.base_after = merge_call.base_before

\* C27: from the placeholder scene on, after any sequence of merges, the
\* scene has every field of SceneState and each holds a non-null value
C27_NeverPartiallyInvalid ==
    /\ DOMAIN engine_scene = SceneFields
    /\ \A k \in SceneFields : engine_scene[k] # JValue("null", <<>>, <<>>)

\* a second merge, of a patch with a null value, into a scene that is no
\* longer the placeholder
C27_Witness ==
    /\ merges = 2
    /\ merge_call.kind = "returned"
    /\ \E k \in DOMAIN merge_call.patch : merge_call.patch[k] = JValue("null", <<>>, <<>>)
    /\ SetKeys # {}
    /\ merge_call.base_before # PlaceholderScene
    /\ C27_NeverPartiallyInvalid

\* ------------------------------------------------------------------------
\* Properties of build_agent_context
\* ------------------------------------------------------------------------
Built == pc = "context_return"

\* the text as the Token Budget Enforcer returns it for the consumer type
Budgeted(text) ==
    IF enforce_flag THEN enforce_budget(agent_type, text, env_value).text ELSE text

\* C28: the context of the router is the recent recap, or the placeholder
\* when the recap is empty, and holds neither the session plan, the scene
\* state nor the player's input; the context of every other consumer type is
\* the session context, then "Player:", then the player's input; with
\* enforcement on, what is returned is that context as enforce_budget
\* returns it for the consumer type
C28_ContextByConsumer ==
    Built
        => /\ agent_type = "router"
                => /\ context = IF session_context.recent_recap \in {None, Some(<<>>)}
                                THEN <<"h">>
                                ELSE session_context.recent_recap[1]
                   /\ ToSet(context) \cap {"P", "S", "D", "p", "u", "v"} = {}
           /\ agent_type # "router"
                => context = StrOfDict(session_context) \o <<"n", "n", "p", " ">>
                                \o user_input
           /\ returned_text = Budgeted(context)
           /\ enforce_flag
                => /\ metadata.agent_type = agent_type
                   /\ metadata.budget = get_budget(agent_type, env_value)

\* the router is given the placeholder for a session that has a plan, a
\* scene and an input but no recap, with the budget enforced
C28_Witness ==
    /\ Built
    /\ agent_type = "router"
    /\ enforce_flag
    /\ session_context.recent_recap = Some(<<>>)
    /\ session_context.session_plan # None
    /\ session_context.scene_state # None
    /\ user_input # <<>>
    /\ returned_text = <<"h">>

\* ------------------------------------------------------------------------
\* Properties of play_turn
\* ------------------------------------------------------------------------
\* the records are numbered 1..k in order and turn_count is k
RecordsNumbered ==
    /\ session.turn_count = Len(session.chat_history)
    /\ \A i \in 1..Len(session.chat_history) : session.chat_history[i].turn_number = i

\* a call that returns appends one record, numbered with the count before
\* the turn plus one; no call changes or removes an earlier record
RecordAppended ==
    /\ turn_call'.outcome = "returned"
          => /\ Len(session'.chat_history) = Len(session.chat_history) + 1
             /\ session'.chat_history[Len(session'.chat_history)].turn_number
                    = session.turn_count + 1
             /\ session'.turn_count = session.turn_count + 1
    /\ turn_call'.outcome # "returned" => session' = session
    /\ Len(session'.chat_history) >= Len(session.chat_history)
    /\ SubSeq(session'.chat_history, 1, Len(session.chat_history)) = session.chat_history

\* C29: with the turns of a session played one after the other, every turn
\* that succeeds appends exactly one record numbered turn_count + 1, after k
\* such turns turn_count is k and the history holds the records 1..k in
\* order, and earlier records are never changed or removed
C29_TurnRecordsAppended == []RecordsNumbered /\ [][RecordAppended]_vars

\* two turns succeeded and one call in between failed
C29_Witness ==
    /\ session.turn_count = 2
    /\ turn_call.calls = 3
    /\ turn_call.outcome = "returned"
    /\ Len(session.chat_history) = 2
    /\ session.chat_history[2].turn_number = 2

\* a call that got as far as building its scene state, after an earlier turn
ReadAfterTurn ==
    /\ turn_call.outcome # "none"
    /\ turn_call.error # "ValueError"
    /\ turn_call.prior_count >= 1

\* C30: the scene state a turn starts from is the scene state the turn
\* before it wrote to the session record
C30_SceneCarriedOver ==
    ReadAfterTurn
        => turn_call.scene_read = session.chat_history[turn_call.prior_count].scene_state

\* C30, what the code does instead: every turn after the first starts from
\* the placeholder scene
C30_SceneStartsFromPlaceholder ==
    ReadAfterTurn => turn_call.scene_read = PlaceholderScene

\* ------------------------------------------------------------------------
\* Properties of the combat state machine
\* ------------------------------------------------------------------------
\* the calls of run_with_retry made for the combat-plan responder
DesignerCalls == Cardinality({i \in 1..Len(calls) : calls[i] = "combat_designer"})

\* C32: the combat-plan responder is invoked, once and through the retry
\* wrapper, exactly when the readiness check signals update and a responder
\* is registered; for keep and clear no remote call is made, and when no
\* responder is registered the turn completes with action skip and the
\* payload as extracted.
C32_DesignerInvokedOnUpdate ==
    /\ DesignerCalls <= 1
    /\ DesignerCalls = 1 =>
            /\ status.action = "update"
            /\ "combat_designer" \in agents
            /\ retry_args = RunnerArgs("combat_designer")
            /\ Len(invocations) >= 1
            /\ \A i \in 1..Len(invocations) :
                    invocations[i] = Invocation(RunnerArgs("combat_designer"))
    /\ (Checked /\ pc # "extracted") =>
            /\ (status.action = "update" /\ "combat_designer" \in agents) => DesignerCalls = 1
            /\ status.action \in {"keep", "clear"} =>
                    /\ DesignerCalls = 0
                    /\ pc = "done"
                    /\ combat_plan_action.action = status.action
            /\ (status.action = "update" /\ "combat_designer" \notin agents) =>
                    /\ DesignerCalls = 0
                    /\ pc = "done"
                    /\ error = NoError
                    /\ result.returned
                    /\ combat_plan_action.action = "skip"
                    /\ result.update_payload = extracted_payload

\* the responder was called after a retry, and the turn returned its plan
C32_Witness ==
    /\ pc = "done"
    /\ DesignerCalls = 1
    /\ Len(invocations) = 2
    /\ combat_plan_action.action = "update"
    /\ scene_state.combat_plan = NoPlan

\* the check evaluated again on the inputs of this turn and the plan this
\* turn stamped
Recheck ==
    check_combat_plan_validity(current_participants, current_location, current_hostile,
                               combat_plan_action.combat_plan)

\* C33: whenever the check signalled update and the plan was regenerated,
\* the check evaluated again with the same participants, location and
\* hostile flag and the freshly stamped plan yields keep.
C33_RegeneratedPlanIsKept ==
    combat_plan_action.action = "update" => Recheck.action = "keep"

\* C33, where it holds: no participant's name is made of whitespace only
C33_KeptWhenNamesAreNotBlank ==
    (/\ combat_plan_action.action = "update"
     /\ \A i \in 1..Len(current_participants) :
            Truthy(current_participants[i]) => strip(current_participants[i]) # <<>>)
        => Recheck.action = "keep"

\* the turn's check yielded clear and play_turn went on to line 816
ClearedAndApplied ==
    /\ combat_plan_action.action = "clear"
    /\ merge_call.kind # "none"

\* C34: after a turn whose combat check yields clear, merge_scene_patch
\* applies the returned scene patch and leaves a scene without a combat
\* plan, on which the same empty, non-hostile scene checks as keep.
C34_ClearThenMergeIsKept ==
    ClearedAndApplied =>
        /\ merge_call.kind = "returned"
        /\ check_combat_plan_validity(current_participants, current_location,
                                      current_hostile, NoPlan).action = "keep"

\* C34, what the code does instead: the patch of a clear always carries the
\* combat_plan key, and the merge raises
C34_ClearThenMergeRaises ==
    ClearedAndApplied =>
        /\ result.update_payload.scene_state_patch.has_combat_plan
        /\ result.update_payload.scene_state_patch.combat_plan = NoPlan
        /\ merge_call.kind = "raised"

\* C34: the SceneState object that play_turn passes never gets as far as a
\* decision of the check
C34_NoDecisionOnSceneState ==
    scene_state.kind = "model" =>
        /\ combat_plan_action.action = "none"
        /\ status = NoStatus
        /\ pc \in {"extracted", "raised"}

\* ------------------------------------------------------------------------
\* Properties of the calls the server runs side by side
\* ------------------------------------------------------------------------
\* the ways a turn ends before its agent has replied: the session is not
\* open, the agent call fails, or the call is cancelled while it waits
EndsWaiting == {"ValueError", "Error getting DM response", "CancelledError"}

\* C31: a turn of play_turn that fails or is cancelled before it completes
\* has written nothing, neither to the session file nor to the campaign
\* memory; the writes of a turn are applied all together or not at all.
C31_FailedTurnWritesNothing ==
    \A t \in TurnCallers :
        tasks[t].outcome \notin {"none", "returned"} => tasks[t].written = {}

\* what does hold: a turn that ends while it waits for an agent leaves the
\* session file and the memory as they are
C31_WaitingTurnWritesNothing ==
    [][\A t \in TurnCallers :
            (tasks'[t] # tasks[t] /\ tasks'[t].outcome \in EndsWaiting)
                => (session' = session /\ memory' = memory /\ tasks'[t].written = {})]_vars

\* C35: whatever way the calls of play_turn of the REST and the WebSocket
\* endpoint interleave, at most one turn is between its load and its save,
\* and after k turns have returned the session file counts k turns and
\* holds k records numbered 1..k.
C35_NoTurnLostOrDuplicated ==
    LET k == tasks["rest"].returned + tasks["websocket"].returned
    IN  /\ Cardinality({t \in TurnCallers : tasks[t].pc = "agent"}) <= 1
        /\ session.turn_count = k
        /\ Len(session.chat_history) = k
        /\ \A i \in 1..Len(session.chat_history) : session.chat_history[i].turn_number = i

\* what does hold: the file always holds as many records as it counts,
\* numbered from 1, because every save writes a whole dict
C35_FileCountsItsRecords ==
    /\ Len(session.chat_history) = session.turn_count
    /\ \A i \in 1..Len(session.chat_history) : session.chat_history[i].turn_number = i

\* C36: once close_session has returned, the session file says complete in
\* every later state: no play_turn, started after the close or running
\* when it happened, appends a turn or makes the status open again.
C36_ClosedStaysClosed ==
    tasks["close"].returned > 0 => session.status = "complete"

\* what does hold: a play_turn that starts on a complete session is refused
\* and writes nothing
C36_RefusedOnceComplete ==
    [][\A t \in TurnCallers :
            (session.status = "complete" /\ tasks[t].pc = "idle" /\ tasks'[t] # tasks[t])
                => (tasks'[t].outcome = "ValueError" /\ tasks'[t].pc = "idle"
                    /\ session' = session /\ memory' = memory)]_vars

\* C37: after any sequence or interleaving of create_session and
\* close_session on one campaign, at most one of its session files has the
\* status open.
C37_AtMostOneOpenSession ==
    Cardinality({id \in DOMAIN session_files : session_files[id] = "open"}) <= 1

\* what does hold: a create_session that starts while a session is open
\* raises ValueError and creates no file
C37_CreateRefusedWhileOpen ==
    [][\A t \in {"first", "second"} :
            ((\E id \in DOMAIN session_files : session_files[id] = "open")
                /\ tasks[t].pc = "idle" /\ tasks'[t] # tasks[t])
                => (tasks'[t].outcome = "ValueError" /\ tasks'[t].pc = "idle"
                    /\ session_files' = session_files)]_vars

\* C39: a connection that is registered under a session key and stays open
\* is not removed by a step: the key stays registered (to it, or to a newer
\* connection that took its place), so the disconnect of an older connection
\* of the key leaves the newer one registered and messages keep reaching it.
C39_OpenConnectionStaysRegistered ==
    [][\A k \in DOMAIN active_connections :
            sockets'[active_connections[k]].state = "open"
                => k \in DOMAIN active_connections']_vars

\* what does hold: a key has one socket at most, and a message is delivered
\* to an open socket of the sender's own key only
C39_DeliveredWithinTheKey ==
    delivered.to # 0 =>
        sockets[delivered.to].session_key = sockets[delivered.from].session_key

\* both entry points have ended
BothEnded ==
    \A e \in DOMAIN entry_runs : entry_runs[e].pc \in {"returned", "raised"}

\* the invocations, the sleeps and the outcome of both entry points are the same
SameRun ==
    /\ entry_runs["retry_on_transient"].invocations = entry_runs["run_with_retry"].invocations
    /\ entry_runs["retry_on_transient"].sleeps = entry_runs["run_with_retry"].sleeps
    /\ entry_runs["retry_on_transient"].outcome = entry_runs["run_with_retry"].outcome

\* C38: given the same function and the same max_attempts, base_delay and
\* max_delay, the retry_on_transient decorator and run_with_retry make the
\* same invocations, sleep the same delays and end with the same outcome.
C38_EntryPointsAgree == BothEnded => SameRun

\* what does hold: they agree on every function that has a __name__, and
\* on every function as long as no invocation raises
C38_AgreeOnNamedFunctions ==
    (BothEnded /\ (wrapped.named \/ wrapped.max_attempts < 1
                       \/ wrapped.behaviour[1] = "returns")) => SameRun

============================================================================
